---- MODULE Spec2Model ----
(***************************************************************************)
(* A model of vite-plugin-native-modules (src/src/index.ts): one plugin    *)
(* session with its two registries (nativeFiles, hashedFilenameToPath),    *)
(* the virtual module table, and the host-driven hooks configResolved,     *)
(* resolveId, load, transform and generateBundle.                          *)
(*                                                                         *)
(* Strings are sequences of tokens.  The characters the code inspects      *)
(* ("/", ".", quotes, blanks, newlines) are tokens of their own, every     *)
(* other token stands for a run of ordinary characters.  Offsets into a    *)
(* source text are token indices, counted from 0 as in the code.  The     *)
(* token "BQ" is the backquote of a template literal.                      *)
(***************************************************************************)
EXTENDS Integers, Sequences, FiniteSets, TLC

(***************************************************************************)
(* Bounds of the model.                                                    *)
(***************************************************************************)
MaxCalls == 3

\* the most binaries present at once in the trees resolveBindings is probed on
MaxBuilt == 2

(***************************************************************************)
(* String primitives (JavaScript String methods over token sequences).     *)
(***************************************************************************)
\* `const v = ...` followed by Body, which sees the value under its own name
With(v, Body(_)) == Body(v)

NoStr == <<"<null>">>

Slice(s, from, to) == SubSeq(s, from + 1, to)

SliceFrom(s, from) == SubSeq(s, from + 1, Len(s))

StartsWith(s, pre) ==
    /\ Len(pre) <= Len(s)
    /\ SubSeq(s, 1, Len(pre)) = pre

EndsWith(s, suf) ==
    /\ Len(suf) <= Len(s)
    /\ SubSeq(s, Len(s) - Len(suf) + 1, Len(s)) = suf

Includes(s, pat) ==
    \E i \in 1..(Len(s) - Len(pat) + 1) : SubSeq(s, i, i + Len(pat) - 1) = pat

\* 0-based index of the last occurrence of token t, -1 when there is none
LastIndexOf(s, t) ==
    LET hits == {i \in 1..Len(s) : s[i] = t}
    IN  IF hits = {} THEN -1
        ELSE (CHOOSE i \in hits : \A j \in hits : j <= i) - 1

\* 0-based index of the first occurrence of token t, -1 when there is none
IndexOf(s, t) ==
    LET hits == {i \in 1..Len(s) : s[i] = t}
    IN  IF hits = {} THEN -1
        ELSE (CHOOSE i \in hits : \A j \in hits : i <= j) - 1

UpperTok(t) ==
    CASE t = "d1aa" -> "D1AA"
      [] t = "d2bb" -> "D2BB"
      [] t = "d3cc" -> "D3CC"
      [] OTHER -> t

ToUpperCase(s) == [i \in 1..Len(s) |-> UpperTok(s[i])]

RECURSIVE Concat(_)
Concat(ss) == IF ss = <<>> THEN <<>> ELSE Head(ss) \o Concat(Tail(ss))

(***************************************************************************)
(* node:path, POSIX flavour.                                               *)
(***************************************************************************)
\* the segments of s between "/" tokens (empty segments included)
RECURSIVE SplitSlash(_)
SplitSlash(s) ==
    LET i == IndexOf(s, "/")
    IN  IF i = -1 THEN <<s>>
        ELSE <<Slice(s, 0, i)>> \o SplitSlash(SliceFrom(s, i + 1))

\* drop "" and ".", let ".." remove the segment before it (at the root: nothing)
RECURSIVE NormSegs(_, _)
NormSegs(done, todo) ==
    IF todo = <<>> THEN done
    ELSE LET h == Head(todo)
         IN  IF h = <<>> \/ h = <<".">> THEN NormSegs(done, Tail(todo))
             ELSE IF h = <<".", ".">>
                  THEN NormSegs(IF done = <<>> THEN done
                                ELSE SubSeq(done, 1, Len(done) - 1), Tail(todo))
                  ELSE NormSegs(Append(done, h), Tail(todo))

RECURSIVE JoinSegs(_)
JoinSegs(segs) ==
    IF segs = <<>> THEN <<>> ELSE <<"/">> \o Head(segs) \o JoinSegs(Tail(segs))

\* an absolute path, normalised, without a trailing slash
AbsNormalize(s) ==
    LET segs == NormSegs(<<>>, SplitSlash(s))
    IN  IF segs = <<>> THEN <<"/">> ELSE JoinSegs(segs)

IsAbsolute(s) == StartsWith(s, <<"/">>)

\* path.resolve(from, to) with from absolute
PathResolve(from, to) ==
    IF IsAbsolute(to) THEN AbsNormalize(to)
    ELSE AbsNormalize(from \o <<"/">> \o to)

RECURSIVE JoinParts(_)
JoinParts(parts) ==
    IF parts = <<>> THEN <<>>
    ELSE IF Head(parts) = <<>> THEN JoinParts(Tail(parts))
    ELSE IF Len(parts) = 1 THEN Head(parts)
    ELSE Head(parts) \o <<"/">> \o JoinParts(Tail(parts))

\* path.join(...parts) with parts[1] absolute; a trailing slash is kept
PathJoin(parts) ==
    LET joined == JoinParts(parts)
        norm   == AbsNormalize(joined)
    IN  IF Len(joined) > 1 /\ EndsWith(joined, <<"/">>) /\ norm # <<"/">>
        THEN norm \o <<"/">> ELSE norm

StripTrailingSlashes(s) ==
    LET keep == {i \in 1..Len(s) : s[i] # "/"}
    IN  IF keep = {} THEN <<>>
        ELSE SubSeq(s, 1, CHOOSE i \in keep : \A j \in keep : j <= i)

\* path.basename(p)
Basename(p) ==
    LET q == StripTrailingSlashes(p)
    IN  IF q = <<>> THEN (IF p = <<>> THEN <<>> ELSE <<"/">>)
        ELSE SliceFrom(q, LastIndexOf(q, "/") + 1)

\* path.dirname(p)
Dirname(p) ==
    LET q == StripTrailingSlashes(p)
        i == LastIndexOf(q, "/")
    IN  IF q = <<>> THEN (IF p = <<>> THEN <<".">> ELSE <<"/">>)
        ELSE IF i = -1 THEN <<".">>
        ELSE IF StripTrailingSlashes(Slice(q, 0, i)) = <<>> THEN <<"/">>
        ELSE StripTrailingSlashes(Slice(q, 0, i))

(***************************************************************************)
(* The file system the session runs on.  It does not change during a       *)
(* session.  A file system is a sequence of file entries; a directory      *)
(* exists when a file lies below it, and a directory listing returns the   *)
(* names in the order of the sequence.                                     *)
(***************************************************************************)
Platform == "linux"

Arch == "x64"

BinFile(p, data) == [path |-> p, kind |-> "bin", data |-> data, main |-> NoStr, mtype |-> "none"]

PkgJson(p, main, mtype) == [path |-> p, kind |-> "json", data |-> "json", main |-> main, mtype |-> mtype]

P_A == <<"/", "p", "/", "lib", "/", "a", ".", "node">>

P_RootA == <<"/", "p", "/", "a", ".", "node">>

P_B == <<"/", "p", "/", "lib", "/", "b", ".", "node">>

P_Napi == <<"/", "p", "/", "lib", "/", "prebuilds", "/", "linux", "-", "x64", "/", "g", ".", "napi", ".", "node">>

P_Abi == <<"/", "p", "/", "lib", "/", "prebuilds", "/", "linux", "-", "x64", "/", "g", ".", "abi", ".", "node">>

P_Rel == <<"/", "p", "/", "build", "/", "Release", "/", "bnd", ".", "node">>

P_Pkg == <<"/", "p", "/", "node_modules", "/", "@", "s", "/", "linux", "-", "x64", "/", "index", ".", "node">>

P_PkgJson == <<"/", "p", "/", "node_modules", "/", "@", "s", "/", "linux", "-", "x64", "/", "package", ".", "json">>

P_Odd == <<"/", "p", "/", "lib", "/", "node_modules", "/", "a", ".", "node", "/", "main", ".", "node">>

P_OddJson == <<"/", "p", "/", "lib", "/", "node_modules", "/", "a", ".", "node", "/", "package", ".", "json">>

P_RootJson == <<"/", "p", "/", "package", ".", "json">>

FsFull ==
    << PkgJson(P_RootJson, NoStr, "none"),
       BinFile(P_A, "c1"),
       BinFile(P_RootA, "c1"),
       BinFile(P_B, "c2"),
       BinFile(P_Abi, "c2"),
       BinFile(P_Napi, "c3"),
       BinFile(P_Rel, "c1"),
       PkgJson(P_PkgJson, <<"index", ".", "node">>, "none"),
       BinFile(P_Pkg, "c3"),
       PkgJson(P_OddJson, <<"main", ".", "node">>, "none"),
       BinFile(P_Odd, "c2") >>

Without(fsys, gone) == SelectSeq(fsys, LAMBDA e : e.path \notin gone)

\* the local binaries are missing, the packages are installed
FsNoLocal == Without(FsFull, {P_A, P_RootA, P_B, P_Abi, P_Napi})

\* nothing but the manifest and the legacy build output
FsBare == Without(FsFull, {P_A, P_RootA, P_B, P_Abi, P_Napi, P_Pkg, P_PkgJson, P_Odd, P_OddJson})

FsChoices == {FsFull, FsNoLocal, FsBare}

(***************************************************************************)
(* node:fs over a file system value.                                       *)
(***************************************************************************)
IsFile(fsys, p) == \E i \in 1..Len(fsys) : fsys[i].path = p

IsDir(fsys, p) ==
    \E i \in 1..Len(fsys) :
        /\ p # fsys[i].path
        /\ StartsWith(fsys[i].path, IF p = <<"/">> THEN p ELSE p \o <<"/">>)

\* fs.existsSync(p): a file, or a directory (which may carry a trailing slash)
ExistsSync(fsys, p) ==
    IF Len(p) > 1 /\ EndsWith(p, <<"/">>)
    THEN IsDir(fsys, AbsNormalize(p))
    ELSE IsFile(fsys, AbsNormalize(p)) \/ IsDir(fsys, AbsNormalize(p))

FileEntry(fsys, p) == fsys[CHOOSE i \in 1..Len(fsys) : fsys[i].path = p]

\* fs.readFileSync(p): the entry of a file; reading a directory throws (EISDIR)
ReadThrows(fsys, p) == ~IsFile(fsys, AbsNormalize(p))

ReadFileSync(fsys, p) == FileEntry(fsys, AbsNormalize(p))

\* first path segment of entry path q below directory d
ChildName(d, q) ==
    LET rest == SliceFrom(q, Len(IF d = <<"/">> THEN d ELSE d \o <<"/">>))
    IN  Head(SplitSlash(rest))

RECURSIVE Dedup(_, _)
Dedup(seen, todo) ==
    IF todo = <<>> THEN seen
    ELSE IF \E i \in 1..Len(seen) : seen[i] = Head(todo)
         THEN Dedup(seen, Tail(todo))
         ELSE Dedup(Append(seen, Head(todo)), Tail(todo))

\* fs.readdirSync(d): the names directly inside directory d
ReaddirSync(fsys, dir) ==
    LET d     == AbsNormalize(dir)
        below == SelectSeq(fsys, LAMBDA e :
                    /\ e.path # d
                    /\ StartsWith(e.path, IF d = <<"/">> THEN d ELSE d \o <<"/">>))
    IN  Dedup(<<>>, [i \in 1..Len(below) |-> ChildName(d, below[i].path)])

\* the first element of seq satisfying Test, as a one-element sequence, or <<>>
FindFirst(seq, Test(_)) ==
    LET hit == SelectSeq(seq, Test)
    IN  IF hit = <<>> THEN <<>> ELSE <<Head(hit)>>

(***************************************************************************)
(* crypto.createHash("md5").update(content).digest("hex"): 32 hex digits,  *)
(* here four tokens of eight digits each.                                  *)
(***************************************************************************)
Md5Hex(data) ==
    CASE data = "c1" -> <<"d1aa", "0f01", "0f02", "0f03">>
      [] data = "c2" -> <<"d2bb", "0f04", "0f05", "0f06">>
      [] data = "c3" -> <<"d3cc", "0f07", "0f08", "0f09">>
      [] OTHER       -> <<"d0zz", "0f0a", "0f0b", "0f0c">>

\* .slice(0, 8) of the hex digest: its first token
HashOf(data) == Slice(Md5Hex(data), 0, 1)

(***************************************************************************)
(* Helpers of nativeFilePlugin.  The plugin options and the file system    *)
(* are closed over in the code and are parameters here.                    *)
(***************************************************************************)
DotNode == <<".", "node">>

LowerTok(t) ==
    CASE t = "Release" -> "release"
      [] t = "Debug"   -> "debug"
      [] t = "D1AA"    -> "d1aa"
      [] t = "D2BB"    -> "d2bb"
      [] t = "D3CC"    -> "d3cc"
      [] OTHER -> t

ToLowerCase(s) == [i \in 1..Len(s) |-> LowerTok(s[i])]

\* the module-type field of the nearest ancestor manifest that declares one
RECURSIVE ManifestType(_, _)
ManifestType(fsys, dir) ==
    IF dir = <<"/">> \/ dir = Dirname(dir) THEN FALSE
    ELSE With(PathJoin(<<dir, <<"package", ".", "json">> >>), LAMBDA pj :
         With(ReadFileSync(fsys, pj), LAMBDA e :
            IF ExistsSync(fsys, pj) /\ ~ReadThrows(fsys, pj) /\ e.kind = "json"
               /\ e.mtype \in {"module", "commonjs"}
            THEN e.mtype = "module"
            ELSE ManifestType(fsys, Dirname(dir))))

\* code = NoStr stands for a call without the code argument
detectModuleType(fsys, fileId, code) ==
    IF EndsWith(fileId, <<".", "mjs">>) \/ EndsWith(fileId, <<".", "mts">>) THEN TRUE
    ELSE IF EndsWith(fileId, <<".", "cjs">>) \/ EndsWith(fileId, <<".", "cts">>) THEN FALSE
    ELSE IF code # NoStr /\ code # <<>>
            /\ (\/ Includes(code, <<"import", " ">>)
                \/ Includes(code, <<"export", " ">>)
                \/ Includes(code, <<"import", ".", "meta">>))
         THEN TRUE
    ELSE IF code # NoStr /\ code # <<>>
            /\ (\/ Includes(code, <<"require", "(">>)
                \/ Includes(code, <<"module", ".", "exports">>)
                \/ Includes(code, <<"exports", ".">>))
         THEN FALSE
    ELSE ManifestType(fsys, Dirname(fileId))

shouldProcessFile(opts, filePath, currentFileId) ==
    \/ EndsWith(filePath, DotNode)
    \/ \E i \in 1..Len(opts.additionalNativeFiles) :
          LET cfg == opts.additionalNativeFiles[i]
          IN  /\ Includes(currentFileId, <<"node_modules", "/">> \o cfg.package)
              /\ \E j \in 1..Len(cfg.fileNames) :
                    \/ EndsWith(filePath, cfg.fileNames[j])
                    \/ Includes(filePath, <<"/">> \o cfg.fileNames[j])

\* the .node names of a directory listing; <<>> when the listing throws
NodeFilesIn(fsys, dir) ==
    IF ~IsDir(fsys, AbsNormalize(dir)) THEN <<>>
    ELSE SelectSeq(ReaddirSync(fsys, dir), LAMBDA f : EndsWith(f, DotNode))

\* the name of the selected file, not joined to its directory
SelectedInRelative(fsys, dir, nodeFiles, preferNapi) ==
    With(FindFirst(nodeFiles, LAMBDA f : preferNapi /\ Includes(f, <<"napi">>)), LAMBDA napiFile :
        IF Len(nodeFiles) = 0 THEN NoStr
        ELSE IF napiFile # <<>> THEN napiFile[1] ELSE nodeFiles[1])

\* the first binary of the listing, whatever interface its name marks
SelectedInFirst(fsys, dir, nodeFiles, preferNapi) ==
    With(PathJoin(<<dir, nodeFiles[1]>>), LAMBDA selectedPath :
        IF Len(nodeFiles) > 0 /\ ExistsSync(fsys, selectedPath) THEN selectedPath ELSE NoStr)

\* the file a directory of binaries yields: the napi one if any, else the first
SelectedIn(fsys, dir, nodeFiles, preferNapi) ==
    With(FindFirst(nodeFiles, LAMBDA f : preferNapi /\ Includes(f, <<"napi">>)), LAMBDA napiFile :
    With(IF napiFile # <<>> THEN napiFile[1] ELSE nodeFiles[1], LAMBDA selectedFile :
    With(PathJoin(<<dir, selectedFile>>), LAMBDA selectedPath :
        IF Len(nodeFiles) > 0 /\ ExistsSync(fsys, selectedPath) THEN selectedPath ELSE NoStr)))

resolveNodeGypBuild(fsys, directory) ==
    With(PathJoin(<<directory, <<"prebuilds">>, <<Platform, "-", Arch>> >>), LAMBDA prebuildsDir :
    With(PathJoin(<<directory, <<"build">>, <<"Release">> >>), LAMBDA buildDir :
    With(IF ExistsSync(fsys, prebuildsDir)
         THEN SelectedIn(fsys, prebuildsDir, NodeFilesIn(fsys, prebuildsDir), TRUE)
         ELSE NoStr, LAMBDA prebuilt :
        IF prebuilt # NoStr THEN prebuilt
        ELSE IF ExistsSync(fsys, buildDir)
             THEN SelectedIn(fsys, buildDir, NodeFilesIn(fsys, buildDir), FALSE)
             ELSE NoStr)))

RECURSIVE FindRootFrom(_, _, _)
FindRootFrom(fsys, startDir, dir) ==
    With(Dirname(dir), LAMBDA parent :
        IF \/ ExistsSync(fsys, PathJoin(<<dir, <<"package", ".", "json">> >>))
           \/ ExistsSync(fsys, PathJoin(<<dir, <<"node_modules">> >>))
        THEN dir
        ELSE IF parent = dir \/ parent = <<".">> \/ parent = <<"/">>
             THEN startDir
             ELSE FindRootFrom(fsys, startDir, parent))

findPackageRoot(fsys, startDir) == FindRootFrom(fsys, startDir, startDir)

\* the search list with the Debug builds ahead of the Release builds
BindingsSearchDirsDebugFirst ==
    << <<"build", "/", "Debug">>, <<"build", "/", "Release">>,
       <<"out", "/", "Debug">>, <<"out", "/", "Release">>,
       <<"build", "/", "default">>, <<"compiled">>, <<>> >>

BindingsSearchDirs ==
    << <<"build", "/", "Release">>, <<"build", "/", "Debug">>,
       <<"out", "/", "Release">>, <<"out", "/", "Debug">>,
       <<"build", "/", "default">>, <<"compiled">>, <<>> >>

resolveBindings(fsys, directory, moduleName) ==
    With(IF EndsWith(moduleName, DotNode) THEN moduleName ELSE moduleName \o DotNode,
         LAMBDA nodeFileName :
    With(findPackageRoot(fsys, directory), LAMBDA packageRoot :
    With(FindFirst([i \in 1..Len(BindingsSearchDirs) |->
                      PathJoin(<<packageRoot, BindingsSearchDirs[i], nodeFileName>>)],
                   LAMBDA sp : ExistsSync(fsys, sp)), LAMBDA found :
        IF found # <<>> THEN found[1] ELSE NoStr)))

\* the manifest's `main` when it names an existing .node file, else NoStr
MainNodeFile(fsys, packageDir, packageJsonPath) ==
    With(ReadFileSync(fsys, packageJsonPath), LAMBDA pj :
    With(PathJoin(<<packageDir, pj.main>>), LAMBDA mainPath :
        IF /\ ExistsSync(fsys, packageJsonPath)
           /\ ~ReadThrows(fsys, packageJsonPath)
           /\ pj.kind = "json"
           /\ pj.main # NoStr /\ pj.main # <<>>
           /\ EndsWith(pj.main, DotNode)
           /\ ExistsSync(fsys, mainPath)
        THEN mainPath ELSE NoStr))

\* what one iteration of the ancestor walk finds for the package in currentDir
NpmProbe(fsys, packageName, currentDir) ==
    With(PathJoin(<<currentDir, <<"node_modules">> >>), LAMBDA nodeModulesDir :
    With(PathJoin(<<nodeModulesDir, packageName>>), LAMBDA packageDir :
    With(MainNodeFile(fsys, packageDir, PathJoin(<<packageDir, <<"package", ".", "json">> >>)),
         LAMBDA mainPath :
    With(PathJoin(<<packageDir, <<"index", ".", "node">> >>), LAMBDA indexNodePath :
    With(NodeFilesIn(fsys, packageDir), LAMBDA nodeFiles :
        IF ~(ExistsSync(fsys, nodeModulesDir) /\ ExistsSync(fsys, packageDir)) THEN NoStr
        ELSE IF mainPath # NoStr THEN mainPath
        ELSE IF ExistsSync(fsys, indexNodePath) THEN indexNodePath
        ELSE IF Len(nodeFiles) > 0 THEN PathJoin(<<packageDir, nodeFiles[1]>>)
        ELSE NoStr)))))

RECURSIVE NpmWalk(_, _, _)
NpmWalk(fsys, packageName, currentDir) ==
    IF currentDir = <<"/">> \/ currentDir = Dirname(currentDir) THEN NoStr
    ELSE With(NpmProbe(fsys, packageName, currentDir), LAMBDA hit :
            IF hit # NoStr THEN hit
            ELSE NpmWalk(fsys, packageName, Dirname(currentDir)))

resolveNpmPackageNodeFile(fsys, packageName, fromDir) == NpmWalk(fsys, packageName, fromDir)

PlatformPatterns ==
    << <<Platform, "-", Arch>>,
       <<Platform, "-", Arch, "-", "gnu">>,
       <<Platform, "-", Arch, "-", "musl">>,
       <<Platform, IF Arch = "x64" THEN "64" ELSE IF Arch = "ia32" THEN "32" ELSE Arch>> >>

\* the first of the candidate packages that resolves to a binary, or <<>>
FirstResolved(fsys, packageNames, currentDir) ==
    FindFirst([i \in 1..Len(packageNames) |->
                  resolveNpmPackageNodeFile(fsys, packageNames[i], currentDir)],
              LAMBDA r : r # NoStr)

\* the packages of the scope directory whose name has the platform and the arch
MatchingPackages(fsys, scopeDir) ==
    SelectSeq(IF IsDir(fsys, AbsNormalize(scopeDir)) THEN ReaddirSync(fsys, scopeDir) ELSE <<>>,
              LAMBDA pkg :
                 With(ToLowerCase(pkg), LAMBDA pkgLower :
                    /\ Includes(pkgLower, ToLowerCase(<<Platform>>))
                    /\ Includes(pkgLower, ToLowerCase(<<Arch>>))))

\* what one iteration of the ancestor walk finds for the scope prefix in currentDir
PlatformProbe(fsys, scopePrefix, currentDir) ==
    With(PathJoin(<<currentDir, <<"node_modules">> >>), LAMBDA nodeModulesDir :
    With(Head(SplitSlash(scopePrefix)), LAMBDA scopeName :
    With(PathJoin(<<nodeModulesDir, scopeName>>), LAMBDA scopeDir :
    With(FirstResolved(fsys,
            [i \in 1..Len(PlatformPatterns) |-> scopePrefix \o PlatformPatterns[i]]
            \o (IF StartsWith(scopePrefix, <<"@">>) /\ ExistsSync(fsys, scopeDir)
                THEN With(MatchingPackages(fsys, scopeDir), LAMBDA matching :
                        [i \in 1..Len(matching) |-> scopeName \o <<"/">> \o matching[i]])
                ELSE <<>>),
            currentDir), LAMBDA hit :
        IF ExistsSync(fsys, nodeModulesDir) /\ hit # <<>> THEN hit[1] ELSE NoStr))))

RECURSIVE PlatformWalk(_, _, _)
PlatformWalk(fsys, scopePrefix, currentDir) ==
    IF currentDir = <<"/">> \/ currentDir = Dirname(currentDir) THEN NoStr
    ELSE With(PlatformProbe(fsys, scopePrefix, currentDir), LAMBDA hit :
            IF hit # NoStr THEN hit
            ELSE PlatformWalk(fsys, scopePrefix, Dirname(currentDir)))

\* the nodeFilePath of the result, NoStr for null
findPlatformSpecificNativePackage(fsys, scopePrefix, fromDir) ==
    PlatformWalk(fsys, scopePrefix, fromDir)

generateHashedFilename(opts, originalFilename, hash) ==
    LET lastDotIndex == LastIndexOf(originalFilename, ".")
        extension    == IF lastDotIndex > 0 THEN SliceFrom(originalFilename, lastDotIndex)
                        ELSE <<>>
    IN  IF opts.filenameFormat = "hash-only"
        THEN ToUpperCase(hash) \o extension
        ELSE IF lastDotIndex > 0
             THEN Slice(originalFilename, 0, lastDotIndex) \o <<"-">> \o ToUpperCase(hash) \o extension
             ELSE originalFilename \o <<"-">> \o ToUpperCase(hash)

(***************************************************************************)
(* Source files.  this.parse(code) yields an ESTree; the trees are built   *)
(* here from constructors and laid out by Layout, which prints the text    *)
(* and gives every node the start and end offsets the parser would give.   *)
(***************************************************************************)
Id(name) == [type |-> "Identifier", name |-> name]

Lit(q, value) == [type |-> "Literal", value |-> value, quote |-> q]

Member(o, p) == [type |-> "MemberExpression", object |-> o, property |-> p]

Call(callee, args) == [type |-> "CallExpression", callee |-> callee, arguments |-> args]

ImportMetaUrl ==
    Member([type |-> "MetaProperty", meta |-> Id("import"), property |-> Id("meta")], Id("url"))

Tmpl(prefix, expr) ==
    [type |-> "TemplateLiteral", cooked |-> prefix, expressions |-> <<expr>>]

Obj(key, value) ==
    [type |-> "ObjectExpression",
     properties |-> << [type |-> "Property", key |-> Id(key), value |-> value] >>]

Declarator(name, init) == [type |-> "VariableDeclarator", id |-> Id(name), init |-> init]

VarDecl(decls) == [type |-> "VariableDeclaration", declarations |-> decls]

Const(name, init) == VarDecl(<<Declarator(name, init)>>)

ExprStmt(e) == [type |-> "ExpressionStatement", expression |-> e]

ImportDefault(local, source) ==
    [type |-> "ImportDeclaration",
     specifiers |-> << [type |-> "ImportDefaultSpecifier", local |-> Id(local)] >>,
     source |-> Lit("'", source)]

ImportNamed(imported, local, source) ==
    [type |-> "ImportDeclaration",
     specifiers |-> << [type |-> "ImportSpecifier", imported |-> Id(imported), local |-> Id(local)] >>,
     source |-> Lit("'", source)]

ExportNamed(name) == [type |-> "ExportNamedDeclaration", exported |-> Id(name)]

Cond(test, cons, alt) ==
    [type |-> "ConditionalExpression", test |-> test, consequent |-> cons, alternate |-> alt]

Program(body) == [type |-> "Program", body |-> body]

At(n, s, text) == [start |-> s, end |-> s + Len(text), text |-> text] @@ n

RECURSIVE Layout(_, _), LayoutSeq(_, _, _)
LayoutSeq(ns, s, sep) ==
    IF ns = <<>> THEN [nodes |-> <<>>, text |-> <<>>]
    ELSE LET h    == Layout(Head(ns), s)
             more == Len(ns) > 1
             rest == LayoutSeq(Tail(ns), h.end + (IF more THEN Len(sep) ELSE 0), sep)
         IN  [nodes |-> <<h>> \o rest.nodes,
              text  |-> h.text \o (IF more THEN sep ELSE <<>>) \o rest.text]

Layout(n, s) ==
    CASE n.type = "Identifier" -> At(n, s, <<n.name>>)
      [] n.type = "Literal" -> At(n, s, <<n.quote>> \o n.value \o <<n.quote>>)
      [] n.type = "MetaProperty" ->
            At([meta |-> Layout(n.meta, s), property |-> Layout(n.property, s + 2)] @@ n,
               s, <<"import", ".", "meta">>)
      [] n.type = "MemberExpression" ->
            LET o == Layout(n.object, s)
                p == Layout(n.property, o.end + 1)
            IN  At([object |-> o, property |-> p] @@ n, s, o.text \o <<".">> \o p.text)
      [] n.type = "CallExpression" ->
            LET c == Layout(n.callee, s)
                a == LayoutSeq(n.arguments, c.end + 1, <<",", " ">>)
            IN  At([callee |-> c, arguments |-> a.nodes] @@ n, s,
                   c.text \o <<"(">> \o a.text \o <<")">>)
      [] n.type = "TemplateLiteral" ->
            LET e == LayoutSeq(n.expressions, s + 1 + Len(n.cooked) + 1, <<>>)
            IN  At([expressions |-> e.nodes] @@ n, s,
                   <<"BQ">> \o n.cooked \o <<"${">> \o e.text \o <<"}", "BQ">>)
      [] n.type = "ObjectExpression" ->
            LET ps == LayoutSeq(n.properties, s + 1, <<",", " ">>)
            IN  At([properties |-> ps.nodes] @@ n, s, <<"{">> \o ps.text \o <<"}">>)
      [] n.type = "Property" ->
            LET k == Layout(n.key, s)
                v == Layout(n.value, k.end + 2)
            IN  At([key |-> k, value |-> v] @@ n, s, k.text \o <<":", " ">> \o v.text)
      [] n.type = "VariableDeclarator" ->
            LET i == Layout(n.id, s)
                e == Layout(n.init, i.end + 3)
            IN  At([id |-> i, init |-> e] @@ n, s, i.text \o <<" ", "=", " ">> \o e.text)
      [] n.type = "VariableDeclaration" ->
            LET ds == LayoutSeq(n.declarations, s + 2, <<",", " ">>)
            IN  At([declarations |-> ds.nodes] @@ n, s,
                   <<"const", " ">> \o ds.text \o <<";">>)
      [] n.type = "ExpressionStatement" ->
            LET e == Layout(n.expression, s)
            IN  At([expression |-> e] @@ n, s, e.text \o <<";">>)
      [] n.type = "ImportDefaultSpecifier" ->
            LET l == Layout(n.local, s)
            IN  At([local |-> l] @@ n, s, l.text)
      [] n.type = "ImportSpecifier" ->
            LET i == Layout(n.imported, s)
                l == Layout(n.local, i.end + 3)
            IN  At([imported |-> i, local |-> l] @@ n, s,
                   i.text \o <<" ", "as", " ">> \o l.text)
      [] n.type = "ImportDeclaration" ->
            LET named == n.specifiers[1].type = "ImportSpecifier"
                open  == IF named THEN <<"{", " ">> ELSE <<>>
                close == IF named THEN <<" ", "}">> ELSE <<>>
                sp    == LayoutSeq(n.specifiers, s + 2 + Len(open), <<",", " ">>)
                pre   == <<"import", " ">> \o open \o sp.text \o close \o <<" ", "from", " ">>
                src   == Layout(n.source, s + Len(pre))
            IN  At([specifiers |-> sp.nodes, source |-> src] @@ n, s,
                   pre \o src.text \o <<";">>)
      [] n.type = "ExportNamedDeclaration" ->
            At(n, s, <<"export", " ", "{", " ", n.exported.name, " ", "}", ";">>)
      [] n.type = "ConditionalExpression" ->
            LET t == Layout(n.test, s)
                c == Layout(n.consequent, t.end + 3)
                a == Layout(n.alternate, c.end + 3)
            IN  At([test |-> t, consequent |-> c, alternate |-> a] @@ n, s,
                   t.text \o <<" ", "?", " ">> \o c.text \o <<" ", ":", " ">> \o a.text)
      [] n.type = "Program" ->
            LET b == LayoutSeq(n.body, s, <<"\n">>)
            IN  At([body |-> b.nodes] @@ n, s, b.text)

\* the child nodes of a node, in the order `for (const key in node)` meets them
Children(n) ==
    CASE n.type = "Program" -> n.body
      [] n.type = "VariableDeclaration" -> n.declarations
      [] n.type = "VariableDeclarator" -> <<n.id, n.init>>
      [] n.type = "ExpressionStatement" -> <<n.expression>>
      [] n.type = "CallExpression" -> <<n.callee>> \o n.arguments
      [] n.type = "MemberExpression" -> <<n.object, n.property>>
      [] n.type = "MetaProperty" -> <<n.meta, n.property>>
      [] n.type = "ConditionalExpression" -> <<n.test, n.consequent, n.alternate>>
      [] n.type = "ImportDeclaration" -> n.specifiers \o <<n.source>>
      [] n.type = "ImportDefaultSpecifier" -> <<n.local>>
      [] n.type = "ImportSpecifier" -> <<n.imported, n.local>>
      [] n.type = "TemplateLiteral" -> n.expressions
      [] n.type = "ObjectExpression" -> n.properties
      [] n.type = "Property" -> <<n.key, n.value>>
      [] OTHER -> <<>>

(***************************************************************************)
(* A JavaScript Map: entries in insertion order; set() on a present key    *)
(* replaces the value in place.                                            *)
(***************************************************************************)
EmptyMap == <<>>

MapHas(m, k) == \E i \in 1..Len(m) : m[i].key = k

MapGet(m, k) == m[CHOOSE i \in 1..Len(m) : m[i].key = k].val

MapSet(m, k, v) ==
    IF MapHas(m, k)
    THEN [i \in 1..Len(m) |-> IF m[i].key = k THEN [key |-> k, val |-> v] ELSE m[i]]
    ELSE Append(m, [key |-> k, val |-> v])

MapKeys(m) == {m[i].key : i \in 1..Len(m)}

MapCount(m, k) == IF MapHas(m, k) THEN MapGet(m, k) ELSE 0

(***************************************************************************)
(* The state of one transform pass: the plugin's registries (st.nativeFiles *)
(* and st.hashedFilenameToPath, shared by all hooks), the locals of        *)
(* transform, and `thrown`, set when a statement of the try block throws.  *)
(* st.reads counts the fs.readFileSync calls made to hash each binary.     *)
(* Every replacement carries, besides start, end and value, the pattern    *)
(* that pushed it (site), the absolute file it stands for (target) and the *)
(* output name its value spells out (name).                                *)
(***************************************************************************)
NoName == "<null>"

NoNode == [type |-> "<undefined>"]

PassStart(nf, rev, reads, esm) ==
    [nativeFiles |-> nf, hashedFilenameToPath |-> rev, reads |-> reads,
     thrown |-> FALSE,
     isESModule |-> esm, hasCreateRequireImport |-> FALSE,
     createRequireLocalName |-> NoName,
     customRequireVars |-> {}, nodeGypBuildVars |-> {}, bindingsVars |-> {},
     pathModuleVars |-> {}, fileURLToPathVars |-> {},
     nodeGypBuildImportNodes |-> <<>>, bindingsImportNodes |-> <<>>,
     nodeGypBuildUsageCount |-> 0, bindingsUsageCount |-> 0,
     directoryVars |-> EmptyMap,
     replacements |-> <<>>, modified |-> FALSE]

IsStringLiteral(n) == n.type = "Literal"

IsIdent(n, name) == n.type = "Identifier" /\ n.name = name

\* callee is `require` or a variable made by createRequire
IsRequireCallee(st, c) ==
    c.type = "Identifier" /\ (c.name = "require" \/ c.name \in st.customRequireVars)

\* n is require('<pkg>') or customRequire('<pkg>')
IsRequireOf(st, n, pkg) ==
    /\ n.type = "CallExpression"
    /\ IsRequireCallee(st, n.callee)
    /\ Len(n.arguments) = 1
    /\ IsStringLiteral(n.arguments[1])
    /\ n.arguments[1].value = pkg

isFileURLToPathPattern(st, node) ==
    /\ node.type = "CallExpression"
    /\ node.callee.type = "Identifier"
    /\ node.callee.name \in st.fileURLToPathVars
    /\ Len(node.arguments) = 1
    /\ node.arguments[1].type = "MemberExpression"
    /\ LET metaExpr == node.arguments[1]
       IN  \/ /\ metaExpr.object.type = "MetaProperty"
              /\ IsIdent(metaExpr.property, "url")
              /\ metaExpr.object.meta.name = "import"
              /\ metaExpr.object.property.name = "meta"
           \/ /\ metaExpr.object.type = "MemberExpression"
              /\ IsIdent(metaExpr.object.object, "import")
              /\ IsIdent(metaExpr.object.property, "meta")
              /\ IsIdent(metaExpr.property, "url")

IsPathModule(st, o) ==
    o.type = "Identifier" /\ (o.name \in st.pathModuleVars \/ o.name = "path")

\* the parts pushed for the arguments from index `from` on (1-based), or
\* <<NoStr>> as soon as one argument is neither a string literal nor a
\* directory variable
RECURSIVE StaticParts(_, _, _)
StaticParts(st, args, from) ==
    IF from > Len(args) THEN <<>>
    ELSE LET a    == args[from]
             rest == StaticParts(st, args, from + 1)
         IN  IF rest = <<NoStr>> THEN rest
             ELSE IF IsStringLiteral(a) THEN <<a.value>> \o rest
             ELSE IF a.type = "Identifier" /\ MapHas(st.directoryVars, a.name)
                  THEN <<MapGet(st.directoryVars, a.name)>> \o rest
                  ELSE <<NoStr>>

\* the body shared by the join/resolve branches of resolveDirectoryFromCall
\* and resolveDirArgument
JoinResolveDir(st, args, currentFileId) ==
    IF Len(args) = 0 THEN NoStr
    ELSE LET firstArg == args[1]
             known    == firstArg.type = "Identifier"
                         /\ (firstArg.name = "__dirname" \/ MapHas(st.directoryVars, firstArg.name))
             baseDir  == IF firstArg.type = "Identifier"
                         THEN (IF firstArg.name = "__dirname" THEN Dirname(currentFileId)
                               ELSE MapGet(st.directoryVars, firstArg.name))
                         ELSE Dirname(currentFileId)
             parts    == StaticParts(st, args, IF firstArg.type = "Identifier" THEN 2 ELSE 1)
         IN  IF ~(known \/ IsStringLiteral(firstArg)) THEN NoStr
             ELSE IF parts = <<NoStr>> THEN NoStr
             ELSE PathJoin(<<baseDir>> \o parts)

resolveDirectoryFromCall(st, callNode, currentFileId) ==
    LET callee == callNode.callee
    IN  IF ~(/\ callee.type = "MemberExpression"
             /\ IsPathModule(st, callee.object)
             /\ callee.property.type = "Identifier")
        THEN NoStr
        ELSE IF callee.property.name = "dirname"
             THEN IF Len(callNode.arguments) # 1 THEN NoStr
                  ELSE IF isFileURLToPathPattern(st, callNode.arguments[1])
                       THEN Dirname(currentFileId)
                  ELSE IF /\ callNode.arguments[1].type = "Identifier"
                          /\ MapHas(st.directoryVars, callNode.arguments[1].name)
                       THEN Dirname(MapGet(st.directoryVars, callNode.arguments[1].name))
                  ELSE NoStr
        ELSE IF callee.property.name \in {"resolve", "join"}
             THEN JoinResolveDir(st, callNode.arguments, currentFileId)
             ELSE NoStr

resolveDirArgument(st, arg, currentFileId) ==
    IF arg.type = NoNode.type THEN NoStr
    ELSE IF IsIdent(arg, "__dirname") THEN Dirname(currentFileId)
    ELSE IF arg.type = "Identifier" /\ MapHas(st.directoryVars, arg.name)
         THEN MapGet(st.directoryVars, arg.name)
    ELSE IF IsStringLiteral(arg) THEN PathResolve(Dirname(currentFileId), arg.value)
    ELSE IF arg.type # "CallExpression" THEN NoStr
    ELSE IF /\ arg.callee.type = "MemberExpression"
            /\ IsIdent(arg.callee.object, "require")
            /\ IsIdent(arg.callee.property, "resolve")
            /\ Len(arg.arguments) = 1
            /\ IsStringLiteral(arg.arguments[1])
            /\ arg.arguments[1].value = <<".", "/">>
         THEN Dirname(currentFileId)
    ELSE IF /\ arg.callee.type = "MemberExpression"
            /\ IsPathModule(st, arg.callee.object)
            /\ arg.callee.property.type = "Identifier"
            /\ arg.callee.property.name \in {"join", "resolve"}
         THEN JoinResolveDir(st, arg.arguments, currentFileId)
    ELSE NoStr

\* a directory the code treats as found: neither null nor the empty string
Truthy(s) == s # NoStr /\ s # <<>>

(***************************************************************************)
(* Registering a binary and recording an edit.                             *)
(***************************************************************************)
\* `let info = nativeFiles.get(p); if (!info) { read, hash, name, set, set }`
\* as written in processNodeFile and in patterns 5, 6, 6b, 7 and 8;
\* filename is the string the pattern hands to generateHashedFilename
StoreNativeFile(st, opts, fsys, absPath, filename) ==
    IF MapHas(st.nativeFiles, absPath) THEN st
    ELSE IF ReadThrows(fsys, absPath) THEN [st EXCEPT !.thrown = TRUE]
    ELSE LET content        == ReadFileSync(fsys, absPath).data
             hashedFilename == generateHashedFilename(opts, filename, HashOf(content))
         IN  [st EXCEPT
                !.nativeFiles = MapSet(@, absPath,
                    [content |-> content, hashedFilename |-> hashedFilename,
                     originalPath |-> absPath]),
                !.hashedFilenameToPath = MapSet(@, hashedFilename, absPath),
                !.reads = MapSet(@, absPath, MapCount(@, absPath) + 1)]

PushReplacement(st, start, end, value, site, target) ==
    [st EXCEPT
        !.replacements = Append(@, [start |-> start, end |-> end, value |-> value,
                                    site |-> site, target |-> target,
                                    name |-> MapGet(st.nativeFiles, target).hashedFilename]),
        !.modified = TRUE]

\* `"<name>"`: the load literal without the leading ./
DoubleQuotedBare(name) == <<"\"">> \o name \o <<"\"">>

\* `"./<name>"`
DoubleQuotedRel(name) == <<"\"", ".", "/">> \o name \o <<"\"">>

\* `'<name>'`
SingleQuoted(name) == <<"'">> \o name \o <<"'">>

\* register absPath if need be, then push the edit of `at` whose value
\* Value spells out from the record's output name
StoreAndReplace(st, opts, fsys, absPath, filename, at, Value(_), site) ==
    With(StoreNativeFile(st, opts, fsys, absPath, filename), LAMBDA st1 :
        IF st1.thrown THEN st1
        ELSE PushReplacement(st1, at.start, at.end,
                             Value(MapGet(st1.nativeFiles, absPath).hashedFilename),
                             site, absPath))

processNodeFile(st, opts, fsys, nodeFilePath, callNode, site) ==
    With(StoreAndReplace(st, opts, fsys, nodeFilePath, Basename(nodeFilePath), callNode,
            LAMBDA hashedFilename :
                IF st.isESModule
                THEN << IF st.createRequireLocalName # NoName
                        THEN st.createRequireLocalName ELSE "createRequire",
                        "(", "import", ".", "meta", ".", "url", ")", "(" >>
                     \o DoubleQuotedRel(hashedFilename) \o <<")">>
                ELSE <<"require", "(">> \o DoubleQuotedRel(hashedFilename) \o <<")">>,
            site), LAMBDA st1 :
        IF st1.thrown THEN st1 ELSE [st1 EXCEPT !.nodeGypBuildUsageCount = @ + 1])

\* the first argument of a call, NoNode when there is none
FirstArg(node) == IF Len(node.arguments) = 0 THEN NoNode ELSE node.arguments[1]

\* patterns 1 and 2: a node-gyp-build loader called with a directory
NodeGypBuildCall(st, opts, fsys, node, id, site) ==
    With(resolveDirArgument(st, FirstArg(node), id), LAMBDA directory :
    With(IF Truthy(directory) THEN resolveNodeGypBuild(fsys, directory) ELSE NoStr,
         LAMBDA nodeFilePath :
        IF nodeFilePath # NoStr
        THEN processNodeFile(st, opts, fsys, nodeFilePath, node, site)
        ELSE st))

\* the module name of a bindings call: a string literal, or the literal of
\* the `bindings` property of an object argument
BindingsModuleName(arg) ==
    IF IsStringLiteral(arg) THEN arg.value
    ELSE IF arg.type = "ObjectExpression"
         THEN LET hit == FindFirst(arg.properties, LAMBDA prop :
                            /\ prop.type = "Property"
                            /\ prop.key.name = "bindings"
                            /\ IsStringLiteral(prop.value))
              IN  IF hit # <<>> THEN hit[1].value.value ELSE NoStr
         ELSE NoStr

\* patterns 3 and 4: the bindings loader called with a module name
BindingsCall(st, opts, fsys, node, id, site) ==
    With(BindingsModuleName(node.arguments[1]), LAMBDA moduleName :
    With(IF Truthy(moduleName) THEN resolveBindings(fsys, Dirname(id), moduleName)
         ELSE NoStr, LAMBDA nodeFilePath :
        IF nodeFilePath = NoStr THEN st
        ELSE With(processNodeFile(st, opts, fsys, nodeFilePath, node, site), LAMBDA st1 :
                IF st1.thrown THEN st1 ELSE [st1 EXCEPT !.bindingsUsageCount = @ + 1])))

\* pattern 5: any call with one string literal that names a native file
Pattern5(st, opts, fsys, node, id) ==
    With(node.arguments[1], LAMBDA literalNode :
    With(PathResolve(Dirname(id), literalNode.value), LAMBDA absolutePath :
        IF shouldProcessFile(opts, literalNode.value, id) /\ ExistsSync(fsys, absolutePath)
        THEN StoreAndReplace(st, opts, fsys, absolutePath, Basename(literalNode.value),
                             literalNode, DoubleQuotedRel, "p5")
        ELSE st))

\* the else-if chain of patterns 1 to 5
PatternChain(st, opts, fsys, node, id) ==
    LET calleeNode == node.callee
        direct     == IsRequireOf(st, calleeNode, <<"node-gyp-build">>)
        directBnd  == IsRequireOf(st, calleeNode, <<"bindings">>) /\ Len(node.arguments) = 1
    IN  IF direct \/ (calleeNode.type = "Identifier" /\ calleeNode.name \in st.nodeGypBuildVars)
        THEN NodeGypBuildCall(st, opts, fsys, node, id, IF direct THEN "p1" ELSE "p2")
        ELSE IF \/ directBnd
                \/ /\ calleeNode.type = "Identifier"
                   /\ calleeNode.name \in st.bindingsVars
                   /\ Len(node.arguments) = 1
        THEN BindingsCall(st, opts, fsys, node, id, IF directBnd THEN "p3" ELSE "p4")
        ELSE IF Len(node.arguments) = 1 /\ IsStringLiteral(node.arguments[1])
        THEN Pattern5(st, opts, fsys, node, id)
        ELSE st

\* the string literals among the arguments strictly between the first and
\* the last, in order; every other argument is passed over
MiddleLiterals(args) ==
    LET mid == SubSeq(args, 2, Len(args) - 1)
        lit == SelectSeq(mid, IsStringLiteral)
    IN  [i \in 1..Len(lit) |-> lit[i].value]

\* the body of patterns 6 and 6b with __dirname taken for the file itself
JoinedNodeFileFromId(st, opts, fsys, node, id, site) ==
    With(node.arguments[1], LAMBDA firstArg :
    With(node.arguments[Len(node.arguments)], LAMBDA lastArg :
    With(IF IsIdent(firstArg, "__dirname") THEN id
         ELSE IF firstArg.type = "Identifier" /\ MapHas(st.directoryVars, firstArg.name)
              THEN MapGet(st.directoryVars, firstArg.name)
              ELSE NoStr, LAMBDA baseDir :
    With(PathJoin(<<baseDir>> \o MiddleLiterals(node.arguments) \o <<lastArg.value>>),
         LAMBDA absolutePath :
        IF /\ Truthy(baseDir)
           /\ IsStringLiteral(lastArg)
           /\ EndsWith(lastArg.value, DotNode)
           /\ ExistsSync(fsys, absolutePath)
        THEN StoreAndReplace(st, opts, fsys, absolutePath, lastArg.value, lastArg,
                             SingleQuoted, site)
        ELSE st))))

\* the body of patterns 6 and 6b without the fs.existsSync check
JoinedNodeFileUnchecked(st, opts, fsys, node, id, site) ==
    With(node.arguments[1], LAMBDA firstArg :
    With(node.arguments[Len(node.arguments)], LAMBDA lastArg :
    With(IF IsIdent(firstArg, "__dirname") THEN Dirname(id)
         ELSE IF firstArg.type = "Identifier" /\ MapHas(st.directoryVars, firstArg.name)
              THEN MapGet(st.directoryVars, firstArg.name)
              ELSE NoStr, LAMBDA baseDir :
    With(PathJoin(<<baseDir>> \o MiddleLiterals(node.arguments) \o <<lastArg.value>>),
         LAMBDA absolutePath :
        IF /\ Truthy(baseDir)
           /\ IsStringLiteral(lastArg)
           /\ EndsWith(lastArg.value, DotNode)
        THEN StoreAndReplace(st, opts, fsys, absolutePath, lastArg.value, lastArg,
                             SingleQuoted, site)
        ELSE st))))

\* the body of patterns 6 and 6b: join(<dir>, ..., '<name>.node')
JoinedNodeFile(st, opts, fsys, node, id, site) ==
    With(node.arguments[1], LAMBDA firstArg :
    With(node.arguments[Len(node.arguments)], LAMBDA lastArg :
    With(IF IsIdent(firstArg, "__dirname") THEN Dirname(id)
         ELSE IF firstArg.type = "Identifier" /\ MapHas(st.directoryVars, firstArg.name)
              THEN MapGet(st.directoryVars, firstArg.name)
              ELSE NoStr, LAMBDA baseDir :
    With(PathJoin(<<baseDir>> \o MiddleLiterals(node.arguments) \o <<lastArg.value>>),
         LAMBDA absolutePath :
        IF /\ Truthy(baseDir)
           /\ IsStringLiteral(lastArg)
           /\ EndsWith(lastArg.value, DotNode)
           /\ ExistsSync(fsys, absolutePath)
        THEN StoreAndReplace(st, opts, fsys, absolutePath, lastArg.value, lastArg,
                             SingleQuoted, site)
        ELSE st))))

\* patterns 6 (path.join, path.resolve) and 6b (a bare join)
Pattern6(st, opts, fsys, node, id) ==
    LET calleeNode == node.callee
        viaPath == /\ calleeNode.type = "MemberExpression"
                   /\ IsPathModule(st, calleeNode.object)
                   /\ calleeNode.property.type = "Identifier"
                   /\ calleeNode.property.name \in {"join", "resolve"}
        bare    == IsIdent(calleeNode, "join")
    IN  IF st.thrown THEN st
        ELSE IF (viaPath \/ bare) /\ Len(node.arguments) >= 2
        THEN JoinedNodeFile(st, opts, fsys, node, id, IF viaPath THEN "p6" ELSE "p6b")
        ELSE st

\* pattern 7: require('<package>') of a package whose entry is a binary
Pattern7(st, opts, fsys, node, id) ==
    IF st.thrown THEN st
    ELSE IF ~(/\ IsRequireCallee(st, node.callee)
              /\ Len(node.arguments) = 1
              /\ IsStringLiteral(node.arguments[1])
              /\ ~StartsWith(node.arguments[1].value, <<".">>)
              /\ ~StartsWith(node.arguments[1].value, <<"/">>)
              /\ ~StartsWith(node.arguments[1].value, <<"node", ":">>))
    THEN st
    ELSE With(resolveNpmPackageNodeFile(fsys, node.arguments[1].value, Dirname(id)),
              LAMBDA nodeFilePath :
            IF nodeFilePath = NoStr THEN st
            ELSE StoreAndReplace(st, opts, fsys, nodeFilePath, Basename(nodeFilePath),
                                 node.arguments[1], DoubleQuotedRel, "p7"))

\* pattern 8: require(`@scope/${expr}`) of a platform-specific package
Pattern8(st, opts, fsys, node, id) ==
    IF st.thrown THEN st
    ELSE IF ~(/\ IsRequireCallee(st, node.callee)
              /\ Len(node.arguments) = 1
              /\ node.arguments[1].type = "TemplateLiteral"
              /\ Len(node.arguments[1].expressions) >= 1
              /\ node.arguments[1].cooked # <<>>
              /\ StartsWith(node.arguments[1].cooked, <<"@">>)
              /\ Includes(node.arguments[1].cooked, <<"/">>))
    THEN st
    ELSE With(findPlatformSpecificNativePackage(fsys, node.arguments[1].cooked, Dirname(id)),
              LAMBDA nodeFilePath :
            IF nodeFilePath = NoStr THEN st
            ELSE StoreAndReplace(st, opts, fsys, nodeFilePath, Basename(nodeFilePath),
                                 node.arguments[1], DoubleQuotedRel, "p8"))

\* the patterns a CallExpression is matched against, in the order of the code
VisitCall(st, opts, fsys, node, id) ==
    Pattern8(Pattern7(Pattern6(PatternChain(st, opts, fsys, node, id),
                               opts, fsys, node, id),
                      opts, fsys, node, id),
             opts, fsys, node, id)

(***************************************************************************)
(* The walk.                                                               *)
(***************************************************************************)
IsModuleSource(src, name) == src = <<name>> \/ src = <<"node", ":", name>>

\* the local names of the specifiers that import `imported` by name
NamedLocals(node, imported) ==
    LET hit == SelectSeq(node.specifiers, LAMBDA sp :
                  /\ sp.type = "ImportSpecifier"
                  /\ IsIdent(sp.imported, imported)
                  /\ sp.local.type = "Identifier")
    IN  [i \in 1..Len(hit) |-> hit[i].local.name]

\* the local names of the default specifiers
DefaultLocals(node) ==
    {node.specifiers[i].local.name : i \in
        {j \in 1..Len(node.specifiers) :
            /\ node.specifiers[j].type = "ImportDefaultSpecifier"
            /\ node.specifiers[j].local.type = "Identifier"}}

NodeRef(node) == [type |-> node.type, start |-> node.start, end |-> node.end]

VisitImport(st, node) ==
    LET source == node.source.value
        cr     == NamedLocals(node, "createRequire")
        f2p    == NamedLocals(node, "fileURLToPath")
        isMod  == IsModuleSource(source, "module")
        isPath == IsModuleSource(source, "path")
        isUrl  == IsModuleSource(source, "url")
        isGyp  == source = <<"node-gyp-build">>
        isBnd  == source = <<"bindings">>
    IN  [st EXCEPT
            !.createRequireLocalName = IF isMod /\ cr # <<>> THEN cr[Len(cr)] ELSE @,
            !.hasCreateRequireImport = IF isMod /\ cr # <<>> THEN TRUE ELSE @,
            !.pathModuleVars = IF isPath THEN @ \cup DefaultLocals(node) ELSE @,
            !.fileURLToPathVars = IF isUrl THEN @ \cup {f2p[i] : i \in 1..Len(f2p)} ELSE @,
            !.nodeGypBuildImportNodes = IF isGyp THEN Append(@, NodeRef(node)) ELSE @,
            !.nodeGypBuildVars = IF isGyp THEN @ \cup DefaultLocals(node) ELSE @,
            !.bindingsImportNodes = IF isBnd THEN Append(@, NodeRef(node)) ELSE @,
            !.bindingsVars = IF isBnd THEN @ \cup DefaultLocals(node) ELSE @]

\* `const v = <call>`: a directory, a custom require, or a loader binding
VisitDeclaratorCall(st, node, id) ==
    With(resolveDirectoryFromCall(st, node.init, id), LAMBDA resolvedDir :
    With(IF Truthy(resolvedDir)
         THEN [st EXCEPT !.directoryVars = MapSet(@, node.id.name, resolvedDir)]
         ELSE st, LAMBDA st1 :
        IF /\ node.init.callee.type = "Identifier"
           /\ st1.createRequireLocalName # NoName
           /\ node.init.callee.name = st1.createRequireLocalName
        THEN [st1 EXCEPT !.customRequireVars = @ \cup {node.id.name}]
        ELSE IF IsRequireOf(st1, node.init, <<"node-gyp-build">>)
        THEN [st1 EXCEPT !.nodeGypBuildImportNodes = Append(@, NodeRef(node)),
                         !.nodeGypBuildVars = @ \cup {node.id.name}]
        ELSE IF IsRequireOf(st1, node.init, <<"bindings">>)
        THEN [st1 EXCEPT !.bindingsImportNodes = Append(@, NodeRef(node)),
                         !.bindingsVars = @ \cup {node.id.name}]
        ELSE st1))

VisitDeclarator(st, node, id) ==
    IF node.id.type # "Identifier" THEN st
    ELSE IF IsIdent(node.init, "__dirname")
         THEN [st EXCEPT !.directoryVars = MapSet(@, node.id.name, Dirname(id))]
    ELSE IF node.init.type = "Identifier" /\ MapHas(st.directoryVars, node.init.name)
         THEN [st EXCEPT !.directoryVars =
                    MapSet(@, node.id.name, MapGet(st.directoryVars, node.init.name))]
    ELSE IF node.init.type = "CallExpression" THEN VisitDeclaratorCall(st, node, id)
    ELSE st

IsExportDeclaration(node) ==
    node.type \in {"ExportDefaultDeclaration", "ExportNamedDeclaration", "ExportAllDeclaration"}

\* what walk does at one node, before it descends
Visit(st, opts, fsys, node, id) ==
    IF node.type = "ImportDeclaration"
    THEN VisitImport([st EXCEPT !.isESModule = TRUE], node)
    ELSE IF IsExportDeclaration(node) THEN [st EXCEPT !.isESModule = TRUE]
    ELSE IF node.type = "VariableDeclarator" THEN VisitDeclarator(st, node, id)
    ELSE IF node.type = "CallExpression" THEN VisitCall(st, opts, fsys, node, id)
    ELSE st

RECURSIVE walk(_, _, _, _, _), WalkAll(_, _, _, _, _)
walk(st, opts, fsys, node, id) ==
    IF st.thrown THEN st
    ELSE WalkAll(Visit(st, opts, fsys, node, id), opts, fsys, Children(node), id)

WalkAll(st, opts, fsys, nodes, id) ==
    IF nodes = <<>> \/ st.thrown THEN st
    ELSE WalkAll(walk(st, opts, fsys, Head(nodes), id), opts, fsys, Tail(nodes), id)

(***************************************************************************)
(* After the walk: import removal, splicing, createRequire injection.      *)
(***************************************************************************)
\* one empty replacement per tracked import or declarator node
RemovalEdits(nodes, site) ==
    [i \in 1..Len(nodes) |->
        [start |-> nodes[i].start, end |-> nodes[i].end, value |-> <<>>,
         site |-> site, target |-> NoStr, name |-> NoStr]]

RemoveImports(st) ==
    LET gyp == IF st.nodeGypBuildUsageCount > 0 /\ Len(st.nodeGypBuildImportNodes) > 0
               THEN RemovalEdits(st.nodeGypBuildImportNodes, "rmGyp") ELSE <<>>
        bnd == IF st.bindingsUsageCount > 0 /\ Len(st.bindingsImportNodes) > 0
               THEN RemovalEdits(st.bindingsImportNodes, "rmBnd") ELSE <<>>
    IN  [st EXCEPT !.replacements = @ \o gyp \o bnd,
                   !.modified = @ \/ gyp # <<>> \/ bnd # <<>>]

\* Array.prototype.sort((a, b) => b.start - a.start): stable, descending start
RECURSIVE InsertDesc(_, _)
InsertDesc(sorted, r) ==
    IF sorted = <<>> THEN <<r>>
    ELSE IF Head(sorted).start >= r.start
         THEN <<Head(sorted)>> \o InsertDesc(Tail(sorted), r)
         ELSE <<r>> \o sorted

RECURSIVE SortDesc(_)
SortDesc(rs) ==
    IF rs = <<>> THEN <<>>
    ELSE InsertDesc(SortDesc(SubSeq(rs, 1, Len(rs) - 1)), rs[Len(rs)])

\* newCode.slice(0, start) + value + newCode.slice(end), one edit after another
RECURSIVE ApplyReplacements(_, _)
ApplyReplacements(code, rs) ==
    IF rs = <<>> THEN code
    ELSE ApplyReplacements(
            Slice(code, 0, Head(rs).start) \o Head(rs).value \o SliceFrom(code, Head(rs).end),
            Tail(rs))

IsSpace(t) == t \in {" ", "\n", "\t"}

\* /^import\s+.*?;?\s*$/gm: the offsets where a match can start
ImportLineStarts(code) ==
    {i \in 0..(Len(code) - 2) :
        /\ code[i + 1] = "import"
        /\ IsSpace(code[i + 2])
        /\ (i = 0 \/ code[i] = "\n")}

\* offset q is an end of line: the end of the text or just before a newline
IsLineEnd(code, q) == q = Len(code) \/ code[q + 1] = "\n"

\* the last end of line reachable from offset q over blanks alone, -1 if none
BlankRunLineEnd(code, q) ==
    LET ends == {e \in q..Len(code) :
                    /\ IsLineEnd(code, e)
                    /\ \A k \in (q + 1)..e : IsSpace(code[k])}
    IN  IF ends = {} THEN -1 ELSE CHOOSE e \in ends : \A f \in ends : f <= e

\* where `;?\s*$` ends when tried at offset j, -1 when it fails there
TailMatchEnd(code, j) ==
    IF j < Len(code) /\ code[j + 1] = ";" /\ BlankRunLineEnd(code, j + 1) # -1
    THEN BlankRunLineEnd(code, j + 1)
    ELSE BlankRunLineEnd(code, j)

\* the end of the match that starts at offset i: the lazy `.*?` stops at the
\* first offset of the line where the tail matches
ImportMatchEnd(code, i) ==
    LET js == {j \in (i + 2)..Len(code) :
                  /\ TailMatchEnd(code, j) # -1
                  /\ \A k \in (i + 3)..j : code[k] # "\n"}
    IN  TailMatchEnd(code, CHOOSE j \in js : \A k \in js : j <= k)

CreateRequireImport == <<"import", " ", "{", " ", "createRequire", " ", "}", " ", "from", " ", "'", "module", "'", ";", "\n">>

\* insert codePrefix after the last import line, or in front of the text
InjectPrefix(newCode, codePrefix) ==
    LET starts == ImportLineStarts(newCode)
        last   == CHOOSE i \in starts : \A k \in starts : k <= i
        insertPos == ImportMatchEnd(newCode, last)
    IN  IF starts # {}
        THEN Slice(newCode, 0, insertPos) \o <<"\n">> \o codePrefix \o SliceFrom(newCode, insertPos)
        ELSE codePrefix \o <<"\n">> \o newCode

(***************************************************************************)
(* The source files the host hands to transform.  Each has its id, its     *)
(* tree (with offsets), its text, and whether this.parse accepts it.       *)
(***************************************************************************)
S_RelA == <<".", "/", "a", ".", "node">>

S_LibA == <<"lib", "/", "a", ".", "node">>

S_BareA == <<"a", ".", "node">>

S_Gyp == <<"node-gyp-build">>

S_Pkg == <<"@", "s", "/", "linux", "-", "x64">>

Dir(name) == <<"/", "p", "/">> \o name

Require(lit) == Call(Id("require"), <<lit>>)

SourceFile(id, body) ==
    LET tree == Layout(Program(body), 0)
    IN  [id |-> id, ast |-> tree, code |-> tree.text, parses |-> TRUE]

\* const x = require('./a.node');
F_One ==
    SourceFile(Dir(<<"lib", "/", "one", ".", "js">>),
               << Const("x", Require(Lit("'", S_RelA))) >>)

\* const p = path.join(__dirname, 'lib/a.node');
F_Two ==
    SourceFile(Dir(<<"two", ".", "js">>),
               << Const("p", Call(Member(Id("path"), Id("join")),
                                  <<Id("__dirname"), Lit("'", S_LibA)>>)) >>)

\* const ok = existsSync(join(__dirname, 'a.node'));
\* const nb = ok ? require('./a.node') : require('@s/linux-x64');
F_Napi ==
    SourceFile(Dir(<<"lib", "/", "napi", ".", "js">>),
               << Const("ok", Call(Id("existsSync"),
                     << Call(Id("join"), <<Id("__dirname"), Lit("'", S_BareA)>>) >>)),
                  Const("nb", Cond(Id("ok"), Require(Lit("'", S_RelA)),
                                   Require(Lit("'", S_Pkg)))) >>)

\* const load = require('node-gyp-build');
\* const a = load(__dirname);
\* const b = load(dyn);
F_Gyp ==
    SourceFile(Dir(<<"lib", "/", "gyp", ".", "js">>),
               << Const("load", Require(Lit("'", S_Gyp))),
                  Const("a", Call(Id("load"), <<Id("__dirname")>>)),
                  Const("b", Call(Id("load"), <<Id("dyn")>>)) >>)

\* import load from 'node-gyp-build';
\* import path from 'path';
\* import { fileURLToPath as toPath } from 'url';
\* const dir = path.dirname(toPath(import.meta.url));
\* const a = load(dir);
\* export { a };
F_GypEsm ==
    SourceFile(Dir(<<"lib", "/", "gyp", ".", "mjs">>),
               << ImportDefault("load", S_Gyp),
                  ImportDefault("path", <<"path">>),
                  ImportNamed("fileURLToPath", "toPath", <<"url">>),
                  Const("dir", Call(Member(Id("path"), Id("dirname")),
                                    << Call(Id("toPath"), <<ImportMetaUrl>>) >>)),
                  Const("a", Call(Id("load"), <<Id("dir")>>)),
                  ExportNamed("a") >>)

\* const load = require('node-gyp-build');
\* const bindings = require('bindings');
\* const b = bindings('bnd');
\* const c = load(dyn);
F_Bnd ==
    SourceFile(Dir(<<"bind", ".", "js">>),
               << Const("load", Require(Lit("'", S_Gyp))),
                  Const("bindings", Require(Lit("'", <<"bindings">>))),
                  Const("b", Call(Id("bindings"), <<Lit("'", <<"bnd">>)>>)),
                  Const("c", Call(Id("load"), <<Id("dyn")>>)) >>)

\* const p = path.join(__dirname, plat, 'a.node');
F_Dyn ==
    SourceFile(Dir(<<"lib", "/", "dyn", ".", "js">>),
               << Const("p", Call(Member(Id("path"), Id("join")),
                                  <<Id("__dirname"), Id("plat"), Lit("'", S_BareA)>>)) >>)

\* const o = require('a.node');
F_Odd ==
    SourceFile(Dir(<<"lib", "/", "odd", ".", "js">>),
               << Const("o", Require(Lit("'", S_BareA))) >>)

\* const t = require(`@s/${target}`);
F_Tmpl ==
    SourceFile(Dir(<<"lib", "/", "tmpl", ".", "js">>),
               << Const("t", Require(Tmpl(<<"@", "s", "/">>, Id("target")))) >>)

\* const d = require('node-gyp-build')(__dirname);
F_Direct ==
    SourceFile(Dir(<<"lib", "/", "direct", ".", "js">>),
               << Const("d", Call(Require(Lit("'", S_Gyp)), <<Id("__dirname")>>)) >>)

\* const r = require('./a.node');   -- in /p, beside /p/a.node
F_Root ==
    SourceFile(Dir(<<"root", ".", "js">>),
               << Const("r", Require(Lit("'", S_RelA))) >>)

\* const fs = require('fs');
F_Plain ==
    SourceFile(Dir(<<"lib", "/", "plain", ".", "js">>),
               << Const("fs", Require(Lit("'", <<"fs">>))) >>)

\* const x = require('./a.node'  -- this.parse throws on it
F_Bad ==
    [id |-> Dir(<<"lib", "/", "bad", ".", "js">>),
     ast |-> Layout(Program(<<>>), 0),
     code |-> <<"const", " ", "x", " ", "=", " ", "require", "(", "'">> \o S_RelA \o <<"'">>,
     parses |-> FALSE]

\* const a = load(__dirname);
\* import load from 'node-gyp-build';      -- the import follows its use
F_Late ==
    SourceFile(Dir(<<"lib", "/", "late", ".", "js">>),
               << Const("a", Call(Id("load"), <<Id("__dirname")>>)),
                  ImportDefault("load", S_Gyp) >>)

\* import { createRequire as cr } from 'module';
\* import load from 'node-gyp-build';
\* const a = load(__dirname);
F_Cr ==
    SourceFile(Dir(<<"lib", "/", "cr", ".", "mjs">>),
               << ImportNamed("createRequire", "cr", <<"module">>),
                  ImportDefault("load", S_Gyp),
                  Const("a", Call(Id("load"), <<Id("__dirname")>>)) >>)

\* import load from 'node-gyp-build';
\* const a = load(__dirname);
\* import { createRequire as cr } from 'module';
F_CrLate ==
    SourceFile(Dir(<<"lib", "/", "crlate", ".", "mjs">>),
               << ImportDefault("load", S_Gyp),
                  Const("a", Call(Id("load"), <<Id("__dirname")>>)),
                  ImportNamed("createRequire", "cr", <<"module">>) >>)

\* const load = require('node-gyp-build');
\* const a = load(__dirname);
\* export { a };
\* const b = load(__dirname);
F_Mixed ==
    SourceFile(Dir(<<"lib", "/", "mixed", ".", "js">>),
               << Const("load", Require(Lit("'", S_Gyp))),
                  Const("a", Call(Id("load"), <<Id("__dirname")>>)),
                  ExportNamed("a"),
                  Const("b", Call(Id("load"), <<Id("__dirname")>>)) >>)

\* const x = require('./a.node');
\* const y = require('./node_modules/a.node');   -- a directory of that name
F_Throw ==
    SourceFile(Dir(<<"lib", "/", "throw", ".", "js">>),
               << Const("x", Require(Lit("'", S_RelA))),
                  Const("y", Require(Lit("'", <<".", "/", "node_modules", "/">> \o S_BareA))) >>)

Files == {F_One, F_Two, F_Napi, F_Gyp, F_GypEsm, F_Bnd, F_Dyn, F_Odd, F_Tmpl,
          F_Direct, F_Root, F_Plain, F_Bad}

\* the transform calls the host makes: every file with no format known to
\* the host, and some with a format that agrees or disagrees with the text
TransformInputs ==
    {[file |-> f, hostFormat |-> "none"] : f \in Files}
    \cup {[file |-> F_One, hostFormat |-> "es"], [file |-> F_Gyp, hostFormat |-> "es"],
          [file |-> F_GypEsm, hostFormat |-> "cjs"]}

\* files whose declarations and call sites come in an unusual order
PassFiles == {F_Late, F_Cr, F_CrLate, F_Mixed, F_Throw}

\* the transform calls explored one pass at a time
PassInputs ==
    TransformInputs
    \cup {[file |-> f, hostFormat |-> "none"] : f \in PassFiles}
    \cup {[file |-> F_Mixed, hostFormat |-> "cjs"]}

(***************************************************************************)
(* The transform hook as a function of the session state and its inputs.   *)
(* hostFormat is what this.getModuleInfo(id).format yields: "es", "cjs",   *)
(* or "none" when the host gives no format.                                *)
(***************************************************************************)
\* `options.forced || command === "build"` in place of `??`
EnabledOr(opts, cmd) == opts.forced = "true" \/ cmd = "build"

Enabled(opts, cmd) ==
    IF opts.forced # "undefined" THEN opts.forced = "true" ELSE cmd = "build"

hasBindingsPackage(code) ==
    \/ Includes(code, <<"require", "(", "'", "bindings", "'", ")">>)
    \/ Includes(code, <<"require", "(", "\"", "bindings", "\"", ")">>)
    \/ Includes(code, <<"from", " ", "'", "bindings", "'">>)
    \/ Includes(code, <<"from", " ", "\"", "bindings", "\"">>)

\* a token of [a-z0-9-]+
IsScopeTok(t) ==
    t \notin {"/", ".", "$", "${", "}", "BQ", "(", ")", " ", "\n", "\t", "'", "\"", ",", ";", "@", ":", "=", "?", "{"}

\* /require\s*\(\s*`@[a-z0-9-]+\//.test(code), for texts without blanks there
hasTemplateLiteralNativePackage(code) ==
    \E i \in 1..(Len(code) - 5) :
        /\ SubSeq(code, i, i + 3) = <<"require", "(", "BQ", "@">>
        /\ \E j \in (i + 5)..Len(code) :
              /\ code[j] = "/"
              /\ \A k \in (i + 4)..(j - 1) : IsScopeTok(code[k])

PassesPrefilter(code) ==
    \/ Includes(code, DotNode)
    \/ Includes(code, <<"node-gyp-build">>)
    \/ hasBindingsPackage(code)
    \/ hasTemplateLiteralNativePackage(code)

InitialIsESModule(fsys, id, code, hostFormat) ==
    IF hostFormat \in {"es", "cjs"} THEN hostFormat = "es"
    ELSE detectModuleType(fsys, id, code)

NullPass == PassStart(EmptyMap, EmptyMap, EmptyMap, FALSE)

\* what transform returns when it returns before or without a walk
Untouched(nf, rev, reads, stage, warned) ==
    [kind |-> "null", code |-> <<>>, stage |-> stage, warned |-> warned,
     nativeFiles |-> nf, hashedFilenameToPath |-> rev, reads |-> reads,
     pass |-> NullPass, injected |-> FALSE]

\* `if (modified) { ... return { code: newCode } }` and the final `return null`
Finish(st, code) ==
    [kind |-> IF st.modified THEN "code" ELSE "null",
     code |-> IF ~st.modified THEN <<>>
              ELSE With(ApplyReplacements(code, SortDesc(st.replacements)), LAMBDA spliced :
                      IF st.isESModule /\ ~st.hasCreateRequireImport
                      THEN InjectPrefix(spliced, CreateRequireImport) ELSE spliced),
     stage |-> IF st.modified THEN "done" ELSE "unmodified",
     warned |-> FALSE,
     nativeFiles |-> st.nativeFiles,
     hashedFilenameToPath |-> st.hashedFilenameToPath,
     reads |-> st.reads, pass |-> st,
     injected |-> st.modified /\ st.isESModule /\ ~st.hasCreateRequireImport]

\* a catch block that hands the exception on to the host
CaughtRethrows(st, stage) ==
    [kind |-> "throw", code |-> <<>>, stage |-> stage, warned |-> FALSE,
     nativeFiles |-> st.nativeFiles, hashedFilenameToPath |-> st.hashedFilenameToPath,
     reads |-> st.reads, pass |-> st, injected |-> FALSE]

\* the catch block around the parse and the walk: console.warn, return
\* null; the registries keep what the walk stored before the throw
Caught(st, stage) ==
    [kind |-> "null", code |-> <<>>, stage |-> stage, warned |-> TRUE,
     nativeFiles |-> st.nativeFiles, hashedFilenameToPath |-> st.hashedFilenameToPath,
     reads |-> st.reads, pass |-> st, injected |-> FALSE]

\* the outcome of transform(code, id): what it returns (kind "null" or
\* "code"), how far it got (stage), whether it warned, and the registries
\* as it leaves them; pass is the final state of its locals
TransformOutcome(nf, rev, reads, opts, cmd, fsys, file, hostFormat) ==
    IF ~Enabled(opts, cmd) THEN Untouched(nf, rev, reads, "disabled", FALSE)
    ELSE IF ~PassesPrefilter(file.code) THEN Untouched(nf, rev, reads, "prefilter", FALSE)
    ELSE IF ~file.parses THEN Caught(PassStart(nf, rev, reads, FALSE), "parseError")
    ELSE With(walk(PassStart(nf, rev, reads,
                             InitialIsESModule(fsys, file.id, file.code, hostFormat)),
                   opts, fsys, file.ast, file.id), LAMBDA st1 :
            IF st1.thrown THEN Caught(st1, "threw") ELSE Finish(RemoveImports(st1), file.code))

(***************************************************************************)
(* resolveId, load and generateBundle as functions of the session state.   *)
(***************************************************************************)
VirtualPrefix == <<"\\0native:">>

\* source.split("?")[0]
BeforeQuery(source) ==
    LET q == IndexOf(source, "?")
    IN  IF q = -1 THEN source ELSE Slice(source, 0, q)

\* the importer's module type as both branches of resolveId find it
ImportingModuleType(fsys, importer, hostFormat) ==
    IF hostFormat \in {"es", "cjs"} THEN hostFormat = "es"
    ELSE detectModuleType(fsys, importer, NoStr)

\* a virtual id built from the file name instead of the resolved path
ResolvedByBasename(nf, rev, vmt, reads, branch, path, importingModuleType) ==
    [kind |-> "id", value |-> VirtualPrefix \o Basename(path), branch |-> branch,
     nativeFiles |-> nf, hashedFilenameToPath |-> rev,
     virtualModuleTypes |-> MapSet(vmt, VirtualPrefix \o Basename(path), importingModuleType),
     reads |-> reads]

\* the result of either branch of resolveId: the virtual id, tracked with
\* the importer's module type
Resolved(nf, rev, vmt, reads, branch, path, importingModuleType) ==
    [kind |-> "id", value |-> VirtualPrefix \o path, branch |-> branch,
     nativeFiles |-> nf, hashedFilenameToPath |-> rev,
     virtualModuleTypes |-> MapSet(vmt, VirtualPrefix \o path, importingModuleType),
     reads |-> reads]

\* a return of null, or an exception, before resolveId stores anything
Unresolved(nf, rev, vmt, reads, kind, branch) ==
    [kind |-> kind, value |-> <<>>, branch |-> branch, nativeFiles |-> nf,
     hashedFilenameToPath |-> rev, virtualModuleTypes |-> vmt, reads |-> reads]

\* path.basename of the source without its query and without a leading "./"
SourceBasename(source) ==
    With(BeforeQuery(source), LAMBDA sourceWithoutQuery :
        Basename(IF StartsWith(sourceWithoutQuery, <<".", "/">>)
                 THEN SliceFrom(sourceWithoutQuery, 2) ELSE sourceWithoutQuery))

\* the branch of resolveId for a source that is no known output name
ResolveFresh(nf, rev, vmt, reads, opts, fsys, source, importer, hostFormat) ==
    With(PathResolve(Dirname(importer), source), LAMBDA resolved :
        IF ~shouldProcessFile(opts, source, importer)
        THEN Unresolved(nf, rev, vmt, reads, "null", "notNative")
        ELSE IF ~ExistsSync(fsys, resolved)
        THEN Unresolved(nf, rev, vmt, reads, "null", "missing")
        ELSE IF ReadThrows(fsys, resolved)
        THEN Unresolved(nf, rev, vmt, reads, "throw", "fresh")
        ELSE With(ReadFileSync(fsys, resolved).data, LAMBDA content :
             With(generateHashedFilename(opts, Basename(source), HashOf(content)),
                  LAMBDA hashedFilename :
                Resolved(MapSet(nf, resolved, [content |-> content,
                                               hashedFilename |-> hashedFilename,
                                               originalPath |-> resolved]),
                         MapSet(rev, hashedFilename, resolved),
                         vmt,
                         MapSet(reads, resolved, MapCount(reads, resolved) + 1),
                         "fresh", resolved,
                         ImportingModuleType(fsys, importer, hostFormat)))))

\* the outcome of resolveId(source, importer); importer = NoStr is undefined
ResolveIdOutcome(nf, rev, vmt, reads, opts, cmd, fsys, source, importer, hostFormat) ==
    IF ~Enabled(opts, cmd) THEN Unresolved(nf, rev, vmt, reads, "null", "disabled")
    ELSE IF importer = NoStr THEN Unresolved(nf, rev, vmt, reads, "null", "noImporter")
    ELSE With(SourceBasename(source), LAMBDA basename :
            IF MapHas(rev, basename)
            THEN Resolved(nf, rev, vmt, reads, "known", MapGet(rev, basename),
                          ImportingModuleType(fsys, importer, hostFormat))
            ELSE ResolveFresh(nf, rev, vmt, reads, opts, fsys, source, importer, hostFormat))

Indent == "          "

EsProxy(hashedFilename) ==
    <<"\n", Indent, "import", " ", "{", " ", "createRequire", " ", "}", " ", "from", " ",
      "'", "node", ":", "module", "'", ";", "\n",
      Indent, "const", " ", "createRequireLocal", " ", "=", " ", "createRequire", "(",
      "import", ".", "meta", ".", "url", ")", ";", "\n",
      Indent, "export", " ", "default", " ", "createRequireLocal", "(", "'", ".", "/">>
    \o hashedFilename \o <<"'", ")", ";", "\n", "        ">>

CjsProxy(hashedFilename) ==
    <<"\n", Indent, "module", ".", "exports", " ", "=", " ", "require", "(", "'", ".", "/">>
    \o hashedFilename \o <<"'", ")", ";", "\n", "        ">>

\* the proxy module for a recorded binary
Proxy(info, originalPath, isESModule) ==
    [kind |-> "code",
     value |-> IF isESModule THEN EsProxy(info.hashedFilename)
               ELSE CjsProxy(info.hashedFilename),
     path |-> originalPath, name |-> info.hashedFilename, es |-> isESModule]

\* the outcome of load(id)
LoadOutcome(nf, vmt, fsys, id, hostFormat) ==
    With(SliceFrom(id, Len(VirtualPrefix)), LAMBDA originalPath :
        IF ~StartsWith(id, VirtualPrefix)
        THEN [kind |-> "null", value |-> <<>>, path |-> NoStr, name |-> NoStr, es |-> FALSE]
        ELSE IF ~MapHas(nf, originalPath)
        THEN [kind |-> "null", value |-> <<>>, path |-> originalPath, name |-> NoStr,
              es |-> FALSE]
        ELSE Proxy(MapGet(nf, originalPath), originalPath,
                   IF MapHas(vmt, id) THEN MapGet(vmt, id)
                   ELSE IF hostFormat \in {"es", "cjs"} THEN hostFormat = "es"
                   ELSE detectModuleType(fsys, originalPath, NoStr)))

\* generateBundle emitting once per output name instead of once per record
EmittedAssetsByName(nf) ==
    With(SelectSeq([i \in 1..Len(nf) |-> [at |-> i, info |-> nf[i].val]], LAMBDA e :
            \A j \in 1..(e.at - 1) : nf[j].val.hashedFilename # e.info.hashedFilename),
         LAMBDA firsts :
            [i \in 1..Len(firsts) |->
                [fileName |-> firsts[i].info.hashedFilename,
                 source |-> firsts[i].info.content, type |-> "asset"]])

\* the emitFile calls of generateBundle, in order
EmittedAssets(nf) ==
    [i \in 1..Len(nf) |->
        [fileName |-> nf[i].val.hashedFilename, source |-> nf[i].val.content, type |-> "asset"]]

(***************************************************************************)
(* The plugin instance over a build session.  The host calls the hooks in  *)
(* any order; at most MaxCalls calls are explored.                         *)
(*   last      what the latest hook call was given and what it returned;   *)
(*             kind "throw" is an exception raised to the host             *)
(*   warnings  the number of console.warn calls so far                     *)
(*   emitted   the emitFile calls of the latest generateBundle             *)
(*   rewrites  every (binary, output name) pair written so far into a text *)
(*             returned by transform or load                               *)
(*   outputFormat  build.rollupOptions.output.format of the config given   *)
(*             to configResolved ("es" unless configured); the hooks never *)
(*             read it                                                     *)
(***************************************************************************)
VARIABLES command, options, fs, nativeFiles, hashedFilenameToPath, virtualModuleTypes,
          reads, last, warnings, emitted, rewrites, calls, outputFormat

vars == <<command, options, fs, nativeFiles, hashedFilenameToPath, virtualModuleTypes,
          reads, last, warnings, emitted, rewrites, calls, outputFormat>>

Options(forced, filenameFormat) ==
    [forced |-> forced, filenameFormat |-> filenameFormat, additionalNativeFiles |-> <<>>]

\* the plugin's options and the file system it is constructed over
Sessions ==
    { [options |-> Options("undefined", "preserve"), fs |-> FsFull],
      [options |-> Options("undefined", "hash-only"), fs |-> FsFull],
      [options |-> Options("undefined", "preserve"), fs |-> FsNoLocal],
      [options |-> Options("undefined", "preserve"), fs |-> FsBare],
      [options |-> Options("true", "preserve"), fs |-> FsFull],
      [options |-> Options("false", "preserve"), fs |-> FsFull] }

Commands == {"build", "serve"}

\* the resolved configs the host may pass to configResolved
Configs ==
    {[command |-> c, output |-> "es"] : c \in Commands}
    \cup {[command |-> "build", output |-> "cjs"]}

ResolveInput(source, importer, hostFormat) ==
    [source |-> source, importer |-> importer, hostFormat |-> hostFormat]

\* what the host may ask resolveId for: specifiers of the sources, and every
\* output name written so far, relative or bare with a query
ResolveInputs(rev) ==
    { ResolveInput(S_RelA, F_One.id, "none"),
      ResolveInput(S_RelA, F_One.id, "es"),
      ResolveInput(S_RelA, F_Root.id, "none"),
      ResolveInput(<<".", "/">> \o S_LibA, F_Two.id, "none"),
      ResolveInput(<<"fs">>, F_One.id, "none"),
      ResolveInput(<<".", "/", "node_modules", "/">> \o S_BareA, F_One.id, "none"),
      ResolveInput(S_RelA, NoStr, "none") }
    \cup {ResolveInput(<<".", "/">> \o k, F_One.id, "none") : k \in MapKeys(rev)}
    \cup {ResolveInput(k \o <<"?", "commonjs-external">>, F_GypEsm.id, "es") :
            k \in MapKeys(rev)}

LoadInput(id, hostFormat) == [id |-> id, hostFormat |-> hostFormat]

\* what the host may ask load for: the ids resolveId returned, the id of a
\* binary that resolveId was never asked for, and an ordinary module
LoadInputs(vmt) ==
    {LoadInput(k, "none") : k \in MapKeys(vmt)}
    \cup {LoadInput(VirtualPrefix \o P_A, "none"), LoadInput(VirtualPrefix \o P_A, "es"),
          LoadInput(F_One.id, "none")}

Call0(hook) ==
    [hook |-> hook, kind |-> "void", value |-> <<>>, id |-> NoStr, source |-> NoStr,
     format |-> "none", stage |-> "none", warned |-> FALSE, injected |-> FALSE,
     pass |-> NullPass]

Init ==
    /\ command = "build"
    /\ \E s \in Sessions : options = s.options /\ fs = s.fs
    /\ nativeFiles = EmptyMap
    /\ hashedFilenameToPath = EmptyMap
    /\ virtualModuleTypes = EmptyMap
    /\ reads = EmptyMap
    /\ last = Call0("none")
    /\ warnings = 0
    /\ emitted = <<>>
    /\ rewrites = {}
    /\ calls = 0
    /\ outputFormat = "es"

ConfigResolved ==
    /\ calls < MaxCalls
    /\ \E config \in Configs : command' = config.command /\ outputFormat' = config.output
    /\ last' = Call0("configResolved")
    /\ calls' = calls + 1
    /\ UNCHANGED <<options, fs, nativeFiles, hashedFilenameToPath, virtualModuleTypes,
                   reads, warnings, emitted, rewrites>>

\* the (binary, output name) pairs that the edits of a pass spell out
Written(rs) ==
    {[path |-> rs[i].target, name |-> rs[i].name] :
        i \in {j \in 1..Len(rs) : rs[j].target # NoStr}}

\* transform(code, id) on one of the inputs
TransformOf(inputs) ==
    /\ \E in \in inputs :
          \E o \in {TransformOutcome(nativeFiles, hashedFilenameToPath, reads, options,
                                     command, fs, in.file, in.hostFormat)} :
              /\ nativeFiles' = o.nativeFiles
              /\ hashedFilenameToPath' = o.hashedFilenameToPath
              /\ reads' = o.reads
              /\ warnings' = warnings + (IF o.warned THEN 1 ELSE 0)
              /\ rewrites' = rewrites \cup
                    (IF o.kind = "code" THEN Written(o.pass.replacements) ELSE {})
              /\ last' = [Call0("transform") EXCEPT
                            !.kind = o.kind, !.value = o.code, !.id = in.file.id,
                            !.format = in.hostFormat, !.stage = o.stage,
                            !.warned = o.warned, !.injected = o.injected,
                            !.pass = o.pass]
    /\ calls' = calls + 1
    /\ UNCHANGED <<command, options, fs, virtualModuleTypes, emitted, outputFormat>>

Transform == calls < MaxCalls /\ TransformOf(TransformInputs)

ResolveId ==
    /\ calls < MaxCalls
    /\ \E in \in ResolveInputs(hashedFilenameToPath) :
          \E o \in {ResolveIdOutcome(nativeFiles, hashedFilenameToPath, virtualModuleTypes,
                                     reads, options, command, fs, in.source, in.importer,
                                     in.hostFormat)} :
              /\ nativeFiles' = o.nativeFiles
              /\ hashedFilenameToPath' = o.hashedFilenameToPath
              /\ virtualModuleTypes' = o.virtualModuleTypes
              /\ reads' = o.reads
              /\ last' = [Call0("resolveId") EXCEPT
                            !.kind = o.kind, !.value = o.value, !.id = in.importer,
                            !.source = in.source, !.format = in.hostFormat,
                            !.stage = o.branch]
    /\ calls' = calls + 1
    /\ UNCHANGED <<command, options, fs, warnings, emitted, rewrites, outputFormat>>

Load ==
    /\ calls < MaxCalls
    /\ \E in \in LoadInputs(virtualModuleTypes) :
          \E o \in {LoadOutcome(nativeFiles, virtualModuleTypes, fs, in.id, in.hostFormat)} :
              /\ rewrites' = rewrites \cup
                    (IF o.kind = "code" THEN {[path |-> o.path, name |-> o.name]} ELSE {})
              /\ last' = [Call0("load") EXCEPT
                            !.kind = o.kind, !.value = o.value, !.id = in.id,
                            !.format = in.hostFormat,
                            !.stage = IF o.kind = "code" /\ o.es THEN "es" ELSE "cjs"]
    /\ calls' = calls + 1
    /\ UNCHANGED <<command, options, fs, nativeFiles, hashedFilenameToPath,
                   virtualModuleTypes, reads, warnings, emitted, outputFormat>>

GenerateBundle ==
    /\ calls < MaxCalls
    /\ emitted' = EmittedAssets(nativeFiles)
    /\ last' = Call0("generateBundle")
    /\ calls' = calls + 1
    /\ UNCHANGED <<command, options, fs, nativeFiles, hashedFilenameToPath,
                   virtualModuleTypes, reads, warnings, rewrites, outputFormat>>

Next ==
    \/ ConfigResolved
    \/ Transform
    \/ ResolveId
    \/ Load
    \/ GenerateBundle

Spec == Init /\ [][Next]_vars

(***************************************************************************)
(* Properties.  Edits is the edit list of the latest transform pass, and   *)
(* LastFile the file it was given.                                         *)
(***************************************************************************)
Edits == last.pass.replacements

LastFile == CHOOSE f \in Files \cup PassFiles : f.id = last.id

TransformDone == last.hook = "transform" /\ last.stage \in {"done", "unmodified"}

\* every node of a tree, parents before children
RECURSIVE NodeSeq(_), NodeSeqAll(_)
NodeSeq(n) == <<n>> \o NodeSeqAll(Children(n))

NodeSeqAll(ns) == IF ns = <<>> THEN <<>> ELSE NodeSeq(Head(ns)) \o NodeSeqAll(Tail(ns))

\* the call expressions of a tree
CallsIn(ast) == SelectSeq(NodeSeq(ast), LAMBDA n : n.type = "CallExpression")

\* some edit of the pass lies within the node
EditedWithin(n) ==
    \E i \in 1..Len(Edits) : n.start <= Edits[i].start /\ Edits[i].end <= n.end

\* C1: within one session, any two rewrites whose target is the same
\* absolute binary use the same output name
C1_SameNameForSamePath ==
    \A a, b \in rewrites : a.path = b.path => a.name = b.name

\* C2: once a record exists for a path, no later call replaces it, changes
\* its bytes or its output name, or reads the file again
C2_FirstWriteWins ==
    [][\A p \in MapKeys(nativeFiles) :
          /\ MapHas(nativeFiles', p)
          /\ MapGet(nativeFiles', p) = MapGet(nativeFiles, p)
          /\ MapCount(reads', p) = MapCount(reads, p)]_vars

\* the output name a binary gets when a direct load of it registers it
NameWhenLoaded(p) ==
    generateHashedFilename(options, Basename(p), HashOf(ReadFileSync(fs, p).data))

\* C3: the name written into each file and the name finally emitted for a
\* path do not depend on which file or call site registered the path first:
\* they are the name the path gets whoever comes first
C3_NameIndependentOfOrder ==
    /\ \A w \in rewrites : w.name = NameWhenLoaded(w.path)
    /\ \A i \in 1..Len(nativeFiles) :
          nativeFiles[i].val.hashedFilename = NameWhenLoaded(nativeFiles[i].key)

\* C4: the registry never holds one output name for two different source
\* paths, and generateBundle never emits one output name twice
C4_NoSharedOutputName ==
    /\ \A i, j \in 1..Len(nativeFiles) :
          i # j => nativeFiles[i].val.hashedFilename # nativeFiles[j].val.hashedFilename
    /\ \A i, j \in 1..Len(emitted) : i # j => emitted[i].fileName # emitted[j].fileName

\* C5: the edits of a transform pass, replacements and removals together,
\* have pairwise disjoint [start, end) ranges
C5_EditsDisjoint ==
    last.hook = "transform" =>
        \A i, j \in 1..Len(Edits) :
            i < j => Edits[i].end <= Edits[j].start \/ Edits[j].end <= Edits[i].start

\* the calls of the file through a variable bound to the loader
LoaderCalls(names) ==
    SelectSeq(CallsIn(LastFile.ast), LAMBDA n :
        n.callee.type = "Identifier" /\ n.callee.name \in names)

\* the call was replaced as a whole by the pass
Rewritten(n) ==
    \E i \in 1..Len(Edits) :
        Edits[i].start = n.start /\ Edits[i].end = n.end /\ Edits[i].target # NoStr

AllRewritten(sites) == \A k \in 1..Len(sites) : Rewritten(sites[k])

Removed(site) == \E i \in 1..Len(Edits) : Edits[i].site = site

\* C6: a node-gyp-build or bindings declaration is removed if and only if
\* every call site of the file that uses it was rewritten in the same pass
C6_RemovedIffAllRewritten ==
    TransformDone =>
        /\ Len(last.pass.nodeGypBuildImportNodes) > 0 =>
              (Removed("rmGyp") <=> AllRewritten(LoaderCalls(last.pass.nodeGypBuildVars)))
        /\ Len(last.pass.bindingsImportNodes) > 0 =>
              (Removed("rmBnd") <=> AllRewritten(LoaderCalls(last.pass.bindingsVars)))

\* an argument of the closed static grammar, under the bindings of the pass
IsStatic(arg) ==
    \/ IsStringLiteral(arg)
    \/ resolveDirArgument(last.pass, arg, last.id) # NoStr

\* join(...), path.join(...) or path.resolve(...)
IsJoinCall(n) ==
    \/ IsIdent(n.callee, "join")
    \/ /\ n.callee.type = "MemberExpression"
       /\ IsPathModule(last.pass, n.callee.object)
       /\ n.callee.property.type = "Identifier"
       /\ n.callee.property.name \in {"join", "resolve"}

\* C7: a path call with a segment outside the static grammar is skipped as a
\* whole: the pass makes no edit within it
C7_NonStaticSkipped ==
    TransformDone =>
        \A k \in 1..Len(CallsIn(LastFile.ast)) :
            LET n == CallsIn(LastFile.ast)[k]
            IN  (IsJoinCall(n) /\ \E a \in 1..Len(n.arguments) : ~IsStatic(n.arguments[a]))
                    => ~EditedWithin(n)

\* the transform call was given a file that this.parse rejects, and got as
\* far as parsing it
ParseFailed ==
    /\ last.hook = "transform"
    /\ ~LastFile.parses
    /\ last.stage \notin {"disabled", "prefilter"}

\* C8: if parsing fails, transform returns null and no text, has warned,
\* and raises nothing to the host
C8_ParseFailureReturnsNull ==
    ParseFailed =>
        /\ last.kind = "null"
        /\ last.value = <<>>
        /\ last.warned
        /\ warnings >= 1

C8_Witness == ParseFailed /\ last.id = F_Bad.id /\ last.kind = "null" /\ warnings = 1

\* the latest call transformed the file with the existence-checked join
ExistenceCheckedPass ==
    /\ last.hook = "transform"
    /\ last.id = F_Napi.id
    /\ Enabled(options, command)

CheckedPath == PathJoin(<<Dirname(F_Napi.id), S_BareA>>)

LoadedPath == PathResolve(Dirname(F_Napi.id), S_RelA)

\* C9: in the existence-checked join, the path checked and the path loaded
\* are the same absolute file, and when it exists both sites are rewritten in
\* the same pass to the same output name
C9_CheckAndLoadAgree ==
    (ExistenceCheckedPass /\ ExistsSync(fs, CheckedPath)) =>
        /\ CheckedPath = LoadedPath
        /\ \E c, l \in 1..Len(Edits) :
              /\ Edits[c].site \in {"p6", "p6b"} /\ Edits[c].target = CheckedPath
              /\ Edits[l].site = "p5" /\ Edits[l].target = LoadedPath
              /\ Edits[c].name = Edits[l].name
              /\ Includes(last.value, SingleQuoted(Edits[c].name))
              /\ Includes(last.value, DoubleQuotedRel(Edits[l].name))

C9_Witness ==
    /\ ExistenceCheckedPass /\ ExistsSync(fs, CheckedPath)
    /\ last.kind = "code" /\ Len(Edits) >= 2
    /\ MapHas(nativeFiles, CheckedPath)

\* C10 as claimed: with the binary missing the file is returned unmodified
C10_MissingBinaryUnmodified ==
    (ExistenceCheckedPass /\ ~ExistsSync(fs, CheckedPath)) => last.kind = "null"

FallbackBinary == resolveNpmPackageNodeFile(fs, S_Pkg, Dirname(F_Napi.id))

\* C10 as amended: with the binary missing no edit touches the existence
\* check or the guarded load; the fallback package reference is edited
\* exactly when the package resolves to a binary, and otherwise the file is
\* returned unmodified
C10_OnlyFallbackEdited ==
    (ExistenceCheckedPass /\ ~ExistsSync(fs, CheckedPath)) =>
        /\ \A i \in 1..Len(Edits) : Edits[i].site = "p7" /\ Edits[i].target = FallbackBinary
        /\ Len(Edits) <= 1
        /\ (last.kind = "code") <=> (FallbackBinary # NoStr)
        /\ last.kind = "code" =>
              /\ Includes(last.value, SingleQuoted(S_BareA))
              /\ Includes(last.value, SingleQuoted(S_RelA))

C10_Witness ==
    /\ ExistenceCheckedPass /\ ~ExistsSync(fs, CheckedPath)
    /\ last.kind = "code" /\ Len(Edits) = 1 /\ FallbackBinary # NoStr

\* the latest step was an enabled resolveId call, with an importer, for a
\* specifier whose base name is an output name some rewrite has written
KnownNameAsked ==
    /\ last'.hook = "resolveId"
    /\ Enabled(options, command)
    /\ last'.id # NoStr
    /\ \E w \in rewrites : w.name = SourceBasename(last'.source)

\* C11: resolveId of a specifier whose base name is an output name written
\* by an earlier rewrite returns the virtual key of the path that name was
\* written for, reads no file and stores or replaces no record
C11_KnownNameReverseLookup ==
    [][KnownNameAsked =>
          /\ last'.kind = "id"
          /\ StartsWith(last'.value, VirtualPrefix)
          /\ \A w \in rewrites :
                w.name = SourceBasename(last'.source) =>
                    last'.value = VirtualPrefix \o w.path
          /\ nativeFiles' = nativeFiles
          /\ hashedFilenameToPath' = hashedFilenameToPath
          /\ reads' = reads]_vars

\* the binaries resolved so far in the session: the paths that were read
ResolvedPaths == MapKeys(reads)

\* C12: generateBundle emits exactly one asset per distinct binary path
\* resolved in the session, named as that path's record and carrying the
\* bytes of the file, and nothing else
C12_OneAssetPerPath ==
    last.hook = "generateBundle" =>
        /\ Len(emitted) = Cardinality(ResolvedPaths)
        /\ \A p \in ResolvedPaths : \E i \in 1..Len(emitted) : nativeFiles[i].key = p
        /\ \A i \in 1..Len(emitted) :
              /\ nativeFiles[i].key \in ResolvedPaths
              /\ emitted[i].type = "asset"
              /\ emitted[i].fileName = MapGet(nativeFiles, nativeFiles[i].key).hashedFilename
              /\ emitted[i].source = ReadFileSync(fs, nativeFiles[i].key).data

C12_Witness ==
    /\ last.hook = "generateBundle"
    /\ Cardinality(ResolvedPaths) = 2
    /\ Len(emitted) = 2

\* C13: the proxy text that load returns uses the loading style of the
\* build's configured output format (import/export for ES output, require
\* for CJS output), whatever the format of the importing file
C13_ProxyFollowsOutputFormat ==
    (last.hook = "load" /\ last.kind = "code") =>
        /\ outputFormat = "es" => last.value = EsProxy(MapGet(nativeFiles, SliceFrom(last.id, 1)).hashedFilename)
        /\ outputFormat = "cjs" => last.value = CjsProxy(MapGet(nativeFiles, SliceFrom(last.id, 1)).hashedFilename)

\* an import or export declaration anywhere in the parsed file
HasDeclarativeSyntax(ast) ==
    \E k \in 1..Len(NodeSeq(ast)) :
        NodeSeq(ast)[k].type \in {"ImportDeclaration", "ExportDefaultDeclaration",
                                  "ExportNamedDeclaration", "ExportAllDeclaration"}

\* the module-type field of the nearest ancestor manifest, "none" without one
RECURSIVE NearestManifestType(_, _)
NearestManifestType(fsys, dir) ==
    IF IsFile(fsys, PathJoin(<<dir, <<"package", ".", "json">> >>))
       /\ ReadFileSync(fsys, PathJoin(<<dir, <<"package", ".", "json">> >>)).mtype # "none"
    THEN ReadFileSync(fsys, PathJoin(<<dir, <<"package", ".", "json">> >>)).mtype
    ELSE IF dir = Dirname(dir) THEN "none"
    ELSE NearestManifestType(fsys, Dirname(dir))

\* the format of a file by the stated precedence: TRUE is an ES module
FormatByPrecedence(fsys, file, hostFormat) ==
    IF hostFormat \in {"es", "cjs"} THEN hostFormat = "es"
    ELSE IF HasDeclarativeSyntax(file.ast) THEN TRUE
    ELSE IF EndsWith(file.id, <<".", "mjs">>) \/ EndsWith(file.id, <<".", "mts">>) THEN TRUE
    ELSE IF EndsWith(file.id, <<".", "cjs">>) \/ EndsWith(file.id, <<".", "cts">>) THEN FALSE
    ELSE IF NearestManifestType(fsys, Dirname(file.id)) # "none"
         THEN NearestManifestType(fsys, Dirname(file.id)) = "module"
    ELSE IF \/ Includes(file.code, <<"import", " ">>)
            \/ Includes(file.code, <<"export", " ">>)
            \/ Includes(file.code, <<"import", ".", "meta">>)
         THEN TRUE
    ELSE FALSE

\* C14: the module format a transform pass ends with is the one of the
\* highest-ranked signal present: host format, then import/export syntax,
\* then file suffix, then nearest manifest, then text heuristics, then CJS
C14_FormatPrecedence ==
    TransformDone => last.pass.isESModule = FormatByPrecedence(fs, LastFile, last.format)

\* C15: the format tracked for a virtual module id is written at most once:
\* no later call changes it, and no entry is ever deleted
C15_TrackedFormatWrittenOnce ==
    [][\A id \in MapKeys(virtualModuleTypes) :
          /\ MapHas(virtualModuleTypes', id)
          /\ MapGet(virtualModuleTypes', id) = MapGet(virtualModuleTypes, id)]_vars

\* enabled as the options document it: the forced option when it is set,
\* otherwise whether the command is build
EnabledByOptions ==
    CASE options.forced = "true"  -> TRUE
      [] options.forced = "false" -> FALSE
      [] OTHER                    -> command = "build"

\* the step was a call of resolveId or of transform
GatedCall == last'.hook \in {"transform", "resolveId"}

\* C16: resolveId and transform act only when enabled: when not enabled
\* they return null and leave both registries (and the tracked formats)
\* as they were; with forced set to true they act under serve as well
C16_ActOnlyWhenEnabled ==
    [][GatedCall =>
          /\ ~EnabledByOptions =>
                /\ last'.kind = "null"
                /\ last'.stage = "disabled"
                /\ nativeFiles' = nativeFiles
                /\ hashedFilenameToPath' = hashedFilenameToPath
                /\ virtualModuleTypes' = virtualModuleTypes
                /\ reads' = reads
          /\ EnabledByOptions => last'.stage # "disabled"
          /\ (options.forced = "true" /\ command = "serve" /\ ExistsSync(fs, P_A)) =>
                /\ (last'.hook = "transform" /\ last'.id = F_One.id) =>
                      last'.kind = "code" /\ MapHas(nativeFiles', P_A)
                /\ (last'.hook = "resolveId" /\ last'.source = S_RelA /\ last'.id = F_One.id) =>
                      last'.kind = "id" /\ MapHas(nativeFiles', P_A)]_vars

C16_Witness ==
    /\ options.forced = "true" /\ command = "serve"
    /\ last.hook = "transform" /\ last.kind = "code"

(***************************************************************************)
(* The resolvers on their own.  ProbeSpec applies resolveNodeGypBuild,     *)
(* resolveBindings and resolveNpmPackageNodeFile to directories of file    *)
(* systems drawn from small trees; last.id is the directory asked from,    *)
(* last.source the module or package name, last.value the path returned    *)
(* (NoStr for null).                                                       *)
(***************************************************************************)
LibDir == <<"/", "p", "/", "lib">>

RootDir == <<"/", "p">>

Under(dir, rel) == dir \o <<"/">> \o rel

\* the file systems that keep the entries of tree whose paths are in keep
Keeping(tree, keep) == SelectSeq(tree, LAMBDA e : e.path \in keep)

PathsOf(tree) == {tree[i].path : i \in 1..Len(tree)}

\* a package with prebuilds for this and another platform and a legacy build
GypTree ==
    << BinFile(P_Abi, "c2"),
       BinFile(P_Napi, "c3"),
       BinFile(Under(LibDir, <<"prebuilds", "/", "linux", "-", "x64", "/", "readme", ".", "txt">>), "c1"),
       BinFile(Under(LibDir, <<"prebuilds", "/", "darwin", "-", "arm64", "/", "g", ".", "napi", ".", "node">>), "c1"),
       BinFile(Under(LibDir, <<"build", "/", "Release", "/", "r", ".", "node">>), "c1"),
       BinFile(Under(LibDir, <<"build", "/", "Debug", "/", "d", ".", "node">>), "c2") >>

GypFileSystems == {Keeping(GypTree, keep) : keep \in SUBSET PathsOf(GypTree)}

\* the markers of a package root
RootMarkers ==
    << PkgJson(P_RootJson, NoStr, "none"),
       BinFile(Under(LibDir, <<"node_modules", "/", "dep", "/", "index", ".", "js">>), "c1") >>

\* bnd.node in every directory resolveBindings probes, below /p and below
\* /p/lib, and a binary of another name
BindingsTree ==
    << BinFile(P_Rel, "c1"),
       BinFile(Under(RootDir, <<"build", "/", "Debug", "/", "bnd", ".", "node">>), "c2"),
       BinFile(Under(RootDir, <<"out", "/", "Release", "/", "bnd", ".", "node">>), "c3"),
       BinFile(Under(RootDir, <<"out", "/", "Debug", "/", "bnd", ".", "node">>), "c1"),
       BinFile(Under(RootDir, <<"build", "/", "default", "/", "bnd", ".", "node">>), "c2"),
       BinFile(Under(RootDir, <<"compiled", "/", "bnd", ".", "node">>), "c3"),
       BinFile(Under(RootDir, <<"bnd", ".", "node">>), "c1"),
       BinFile(Under(LibDir, <<"build", "/", "Debug", "/", "bnd", ".", "node">>), "c2"),
       BinFile(Under(LibDir, <<"compiled", "/", "bnd", ".", "node">>), "c3"),
       BinFile(Under(RootDir, <<"build", "/", "Release", "/", "other", ".", "node">>), "c2") >>

\* at most MaxBuilt of the binaries, under each choice of root markers
BindingsFileSystems ==
    {Keeping(RootMarkers, marks) \o Keeping(BindingsTree, keep) :
        marks \in SUBSET PathsOf(RootMarkers),
        keep \in {k \in SUBSET PathsOf(BindingsTree) : Cardinality(k) <= MaxBuilt}}

NearPkg == Under(LibDir, <<"node_modules", "/", "pkg">>)

FarPkg == Under(RootDir, <<"node_modules", "/", "pkg">>)

\* the files of two installed copies of the package pkg, without manifests
PackageTree ==
    << BinFile(Under(NearPkg, <<"z", ".", "node">>), "c1"),
       BinFile(Under(NearPkg, <<"index", ".", "node">>), "c2"),
       BinFile(Under(NearPkg, <<"m", ".", "node">>), "c3"),
       BinFile(Under(NearPkg, <<"lib", "/", "deep", ".", "node">>), "c1"),
       BinFile(Under(NearPkg, <<"index", ".", "js">>), "c2"),
       BinFile(Under(FarPkg, <<"index", ".", "node">>), "c3") >>

\* the manifest of the near copy: none, or one whose main is a binary or a script
NearManifests ==
    { <<>>,
      <<PkgJson(Under(NearPkg, <<"package", ".", "json">>), <<"m", ".", "node">>, "none")>>,
      <<PkgJson(Under(NearPkg, <<"package", ".", "json">>), <<"index", ".", "js">>, "none")>> }

PackageFileSystems ==
    {manifest \o Keeping(PackageTree, keep) :
        manifest \in NearManifests, keep \in SUBSET PathsOf(PackageTree)}

ProbeFileSystems == GypFileSystems \cup BindingsFileSystems \cup PackageFileSystems

ProbeInit ==
    /\ command = "build"
    /\ options = Options("undefined", "preserve")
    /\ fs \in ProbeFileSystems
    /\ nativeFiles = EmptyMap
    /\ hashedFilenameToPath = EmptyMap
    /\ virtualModuleTypes = EmptyMap
    /\ reads = EmptyMap
    /\ last = Call0("none")
    /\ warnings = 0
    /\ emitted = <<>>
    /\ rewrites = {}
    /\ calls = 0
    /\ outputFormat = "es"

\* a resolver was applied, once, to the file system drawn: only last and
\* calls change
Probed(hook, directory, name, result) ==
    /\ last' = [Call0(hook) EXCEPT
                  !.kind = IF result = NoStr THEN "null" ELSE "path",
                  !.value = result, !.id = directory, !.source = name]
    /\ calls' = calls + 1
    /\ UNCHANGED <<command, options, fs, nativeFiles, hashedFilenameToPath,
                   virtualModuleTypes, reads, warnings, emitted, rewrites, outputFormat>>

ScanVariants ==
    /\ calls = 0
    /\ \E directory \in {LibDir, RootDir} :
          Probed("resolveNodeGypBuild", directory, NoStr, resolveNodeGypBuild(fs, directory))

SearchBuildDirs ==
    /\ calls = 0
    /\ \E directory \in {LibDir, RootDir} :
          \E moduleName \in {<<"bnd">>, <<"bnd", ".", "node">>} :
              Probed("resolveBindings", directory, moduleName,
                     resolveBindings(fs, directory, moduleName))

ResolvePackage ==
    /\ calls = 0
    /\ \E fromDir \in {LibDir, Under(LibDir, <<"src">>)} :
          Probed("resolveNpmPackageNodeFile", fromDir, <<"pkg">>,
                 resolveNpmPackageNodeFile(fs, <<"pkg">>, fromDir))

\* transform of a file that calls the loaders from the probed directories
RewriteLoaderCalls == calls = 0 /\ TransformOf({[file |-> f, hostFormat |-> "none"] : f \in {F_Gyp, F_Bnd}})

ProbeNext == ScanVariants \/ SearchBuildDirs \/ ResolvePackage \/ RewriteLoaderCalls

ProbeSpec == ProbeInit /\ [][ProbeNext]_vars

\* the .node files directly inside directory dir
BinariesIn(dir) ==
    {fs[i].path : i \in {j \in 1..Len(fs) :
        Dirname(fs[j].path) = dir /\ EndsWith(fs[j].path, DotNode)}}

VariantDirOf(dir) == Under(dir, <<"prebuilds", "/", Platform, "-", Arch>>)

LegacyDirOf(dir) == Under(dir, <<"build", "/", "Release">>)

NapiIn(dir) == {p \in BinariesIn(dir) : Includes(Basename(p), <<"napi">>)}

\* C17: resolveNodeGypBuild returns a napi binary of the platform-arch
\* directory when there is one, else another binary of that directory; only
\* when that directory is absent or holds no binary does it return a binary
\* of build/Release; otherwise it returns none
C17_VariantScanOrder ==
    last.hook = "resolveNodeGypBuild" =>
        /\ NapiIn(VariantDirOf(last.id)) # {} => last.value \in NapiIn(VariantDirOf(last.id))
        /\ BinariesIn(VariantDirOf(last.id)) # {} =>
              last.value \in BinariesIn(VariantDirOf(last.id))
        /\ (BinariesIn(VariantDirOf(last.id)) = {} /\ BinariesIn(LegacyDirOf(last.id)) # {}) =>
              last.value \in BinariesIn(LegacyDirOf(last.id))
        /\ (BinariesIn(VariantDirOf(last.id)) = {} /\ BinariesIn(LegacyDirOf(last.id)) = {}) =>
              last.value = NoStr

\* both kinds of binary are there, the ABI-specific one listed first
C17_Witness ==
    /\ last.hook = "resolveNodeGypBuild"
    /\ P_Abi \in BinariesIn(VariantDirOf(last.id))
    /\ last.value = P_Napi
    /\ BinariesIn(LegacyDirOf(last.id)) # {}

\* dir and its ancestors below the file-system root, nearest first
RECURSIVE AncestorsOf(_)
AncestorsOf(dir) ==
    IF dir = <<"/">> \/ dir = Dirname(dir) THEN <<>>
    ELSE <<dir>> \o AncestorsOf(Dirname(dir))

\* dir holds a package manifest or a dependency-store directory
HoldsRootMarker(dir) ==
    \E i \in 1..Len(fs) :
        \/ fs[i].path = Under(dir, <<"package", ".", "json">>)
        \/ StartsWith(fs[i].path, Under(dir, <<"node_modules", "/">>))

MarkedAncestors(dir) == SelectSeq(AncestorsOf(dir), HoldsRootMarker)

\* the places of the suffix-normalized name below root, in the stated order
PlacesInOrder(root, name) ==
    With(IF EndsWith(name, DotNode) THEN name ELSE name \o DotNode, LAMBDA file :
        << Under(root, <<"build", "/", "Release", "/">> \o file),
           Under(root, <<"build", "/", "Debug", "/">> \o file),
           Under(root, <<"out", "/", "Release", "/">> \o file),
           Under(root, <<"out", "/", "Debug", "/">> \o file),
           Under(root, <<"build", "/", "default", "/">> \o file),
           Under(root, <<"compiled", "/">> \o file),
           Under(root, file) >>)

\* the first of the places that is a file, NoStr when none is
FirstPresent(places) ==
    IF \A i \in 1..Len(places) : ~IsFile(fs, places[i]) THEN NoStr
    ELSE places[CHOOSE i \in 1..Len(places) :
                   IsFile(fs, places[i]) /\ \A j \in 1..(i - 1) : ~IsFile(fs, places[j])]

\* C18: resolveBindings starts from the nearest ancestor that holds a
\* manifest or a dependency store and returns the first existing match of
\* the suffix-normalized name in the order build/Release, build/Debug,
\* out/Release, out/Debug, build/default, compiled, the root itself
C18_BuildDirectoryOrder ==
    (last.hook = "resolveBindings" /\ MarkedAncestors(last.id) # <<>>) =>
        last.value = FirstPresent(PlacesInOrder(Head(MarkedAncestors(last.id)), last.source))

\* asked from /p/lib for 'bnd': the root is the ancestor /p, the match in
\* build/Debug wins over one in a later directory
C18_Witness ==
    /\ last.hook = "resolveBindings"
    /\ last.id = LibDir /\ last.source = <<"bnd">>
    /\ MarkedAncestors(last.id) = <<RootDir>>
    /\ last.value = Under(RootDir, <<"build", "/", "Debug", "/", "bnd", ".", "node">>)
    /\ IsFile(fs, Under(RootDir, <<"compiled", "/", "bnd", ".", "node">>))

\* the directory is there: some file lies below it
HasDirectory(dir) == \E i \in 1..Len(fs) : StartsWith(fs[i].path, dir \o <<"/">>)

\* the copies of the package in the dependency stores of dir and its
\* ancestors, nearest first
CopiesOf(name, dir) ==
    SelectSeq([i \in 1..Len(AncestorsOf(dir)) |->
                  Under(AncestorsOf(dir)[i], <<"node_modules", "/">> \o name)],
              HasDirectory)

\* the main of the copy's manifest, when it ends in .node and is a file
DeclaredMain(copy) ==
    With(Under(copy, <<"package", ".", "json">>), LAMBDA manifest :
        IF IsFile(fs, manifest)
           /\ ReadFileSync(fs, manifest).main # NoStr
           /\ EndsWith(ReadFileSync(fs, manifest).main, DotNode)
           /\ IsFile(fs, Under(copy, ReadFileSync(fs, manifest).main))
        THEN Under(copy, ReadFileSync(fs, manifest).main)
        ELSE NoStr)

\* the binary of one copy: declared main, else index.node, else the first
\* .node directly inside it, else none
BinaryOfCopy(copy) ==
    IF DeclaredMain(copy) # NoStr THEN DeclaredMain(copy)
    ELSE IF IsFile(fs, Under(copy, <<"index", ".", "node">>))
         THEN Under(copy, <<"index", ".", "node">>)
    ELSE IF BinariesIn(copy) # {}
         THEN fs[CHOOSE i \in 1..Len(fs) :
                    /\ fs[i].path \in BinariesIn(copy)
                    /\ \A j \in 1..(i - 1) : fs[j].path \notin BinariesIn(copy)].path
    ELSE NoStr

\* C19: resolveNpmPackageNodeFile resolves the binary from the nearest
\* installed copy of the package only: its declared .node main, else its
\* index.node, else the first .node directly inside it, else none
C19_NearestCopyOnly ==
    last.hook = "resolveNpmPackageNodeFile" =>
        last.value = IF CopiesOf(last.source, last.id) = <<>> THEN NoStr
                     ELSE BinaryOfCopy(Head(CopiesOf(last.source, last.id)))

\* the edits of the latest pass at an existence check (c) and at a load (l)
\* of the same absolute file
CheckAndLoadEdits ==
    {p \in (1..Len(Edits)) \X (1..Len(Edits)) :
        /\ Edits[p[1]].site \in {"p6", "p6b"}
        /\ Edits[p[2]].site = "p5"
        /\ Edits[p[1]].target = Edits[p[2]].target}

\* a literal without its quotes
Unquoted(literal) == SubSeq(literal, 2, Len(literal) - 1)

\* C20 as claimed: the literal written at the existence check and the literal
\* written at the guarded load are textually identical
C20_LiteralsIdentical ==
    last.hook = "transform" =>
        \A p \in CheckAndLoadEdits : Edits[p[1]].value = Edits[p[2]].value

\* C20 as amended: both literals spell the output name of the one record, the
\* check as the bare name in single quotes, the load as ./name in double quotes
C20_LiteralsSpellSameName ==
    last.hook = "transform" =>
        \A p \in CheckAndLoadEdits :
            /\ Head(Edits[p[1]].value) = "'"
            /\ Head(Edits[p[2]].value) = "\""
            /\ Unquoted(Edits[p[1]].value)
                   = MapGet(nativeFiles, Edits[p[1]].target).hashedFilename
            /\ Unquoted(Edits[p[2]].value)
                   = <<".", "/">> \o Unquoted(Edits[p[1]].value)

C20_Witness ==
    /\ last.hook = "transform" /\ last.kind = "code"
    /\ CheckAndLoadEdits # {}
    /\ \E p \in CheckAndLoadEdits : Includes(last.value, Edits[p[2]].value)

(***************************************************************************)
(* One transform pass on its own: a session is drawn, the host calls       *)
(* transform once, on any of the pass inputs.                              *)
(***************************************************************************)
PassInit ==
    /\ command \in Commands
    /\ \E s \in Sessions : options = s.options /\ fs = s.fs
    /\ nativeFiles = EmptyMap
    /\ hashedFilenameToPath = EmptyMap
    /\ virtualModuleTypes = EmptyMap
    /\ reads = EmptyMap
    /\ last = Call0("none")
    /\ warnings = 0
    /\ emitted = <<>>
    /\ rewrites = {}
    /\ calls = 0
    /\ outputFormat = "es"

TransformOnce == calls = 0 /\ TransformOf(PassInputs)

PassSpec == PassInit /\ [][TransformOnce]_vars

\* the names a file binds to the node-gyp-build loader, wherever in the file
\* the import or the require stands
LoaderAliases(ast) ==
    {n.specifiers[1].local.name :
        n \in {m \in {NodeSeq(ast)[i] : i \in 1..Len(NodeSeq(ast))} :
                  /\ m.type = "ImportDeclaration"
                  /\ m.source.value = S_Gyp
                  /\ m.specifiers[1].type = "ImportDefaultSpecifier"}}
    \cup
    {n.id.name :
        n \in {m \in {NodeSeq(ast)[i] : i \in 1..Len(NodeSeq(ast))} :
                  /\ m.type = "VariableDeclarator"
                  /\ m.init.type = "CallExpression"
                  /\ IsIdent(m.init.callee, "require")
                  /\ Len(m.init.arguments) = 1
                  /\ IsStringLiteral(m.init.arguments[1])
                  /\ m.init.arguments[1].value = S_Gyp}}

\* the calls alias(__dirname) of the latest file
DirnameLoaderCalls ==
    SelectSeq(CallsIn(LastFile.ast), LAMBDA n :
        /\ n.callee.type = "Identifier"
        /\ n.callee.name \in LoaderAliases(LastFile.ast)
        /\ Len(n.arguments) = 1
        /\ IsIdent(n.arguments[1], "__dirname"))

\* C21: a call of a loader alias on __dirname is recognized, and rewritten
\* when the directory holds a binary, whether the alias is declared before
\* or after the call in the file
C21_ScanPrecedesMatch ==
    TransformDone =>
        \A k \in 1..Len(DirnameLoaderCalls) :
            Rewritten(DirnameLoaderCalls[k])
                <=> resolveNodeGypBuild(fs, Dirname(last.id)) # NoStr

\* the edits of the latest pass whose range starts at offset pos
EditsAt(pos) == SelectSeq(Edits, LAMBDA e : e.start = pos)

\* the text from offset pos on with every edit range replaced at once, read
\* off the original text from left to right
RECURSIVE ReplacedAtOnce(_, _)
ReplacedAtOnce(code, pos) ==
    IF pos >= Len(code) THEN <<>>
    ELSE IF EditsAt(pos) # <<>>
         THEN EditsAt(pos)[1].value \o ReplacedAtOnce(code, EditsAt(pos)[1].end)
         ELSE <<code[pos + 1]>> \o ReplacedAtOnce(code, pos + 1)

\* text is base, with the scaffolding line added at one place when injected
IsWithScaffold(text, base, injected) ==
    IF ~injected THEN text = base
    ELSE \E k \in 0..Len(base) :
            \E line \in {<<"\n">> \o CreateRequireImport, CreateRequireImport \o <<"\n">>} :
                text = Slice(base, 0, k) \o line \o SliceFrom(base, k)

\* C22: the text transform returns is the original text with every edit
\* range of the pass replaced by its value at once, nothing else changed but
\* the one injected scaffolding line
C22_SplicedAtOnce ==
    (TransformDone /\ last.kind = "code") =>
        IsWithScaffold(last.value, ReplacedAtOnce(LastFile.code, 0), last.injected)

\* the edits of the latest pass that synthesize X(import.meta.url)("./name")
SynthesizedCreateRequire ==
    SelectSeq(Edits, LAMBDA e :
        /\ Len(e.value) > 8
        /\ SubSeq(e.value, 2, 9) = <<"(", "import", ".", "meta", ".", "url", ")", "(">>)

\* the text imports createRequire from module under the local name x
ImportsCreateRequireAs(text, x) ==
    \/ Includes(text, <<"import", " ", "{", " ", "createRequire", " ", "as", " ", x,
                        " ", "}", " ", "from", " ", "'", "module", "'">>)
    \/ /\ x = "createRequire"
       /\ Includes(text, <<"import", " ", "{", " ", "createRequire", " ", "}", " ",
                           "from", " ", "'", "module", "'">>)

\* C23: every synthesized X(import.meta.url)(...) call of the returned text
\* uses a name X under which that text imports createRequire from module
C23_CreateRequireNameImported ==
    (TransformDone /\ last.kind = "code") =>
        \A k \in 1..Len(SynthesizedCreateRequire) :
            ImportsCreateRequireAs(last.value, SynthesizedCreateRequire[k].value[1])

\* the file has a createRequire import from module of its own
HasOwnCreateRequireImport(ast) ==
    \E i \in 1..Len(ast.body) :
        /\ ast.body[i].type = "ImportDeclaration"
        /\ IsModuleSource(ast.body[i].source.value, "module")
        /\ NamedLocals(ast.body[i], "createRequire") # <<>>

\* how many times the scaffolding line occurs in the text
ScaffoldCount(text) ==
    Cardinality({i \in 1..Len(text) :
        /\ i + Len(CreateRequireImport) - 1 <= Len(text)
        /\ SubSeq(text, i, i + Len(CreateRequireImport) - 1) = CreateRequireImport})

\* the offsets of the text where a scaffolding line starts
ScaffoldStarts(text) ==
    {i \in 1..Len(text) :
        /\ i + Len(CreateRequireImport) - 1 <= Len(text)
        /\ SubSeq(text, i, i + Len(CreateRequireImport) - 1) = CreateRequireImport}

\* the offsets where another line of the text starts with `import `
OtherImportLines(text) ==
    {j \in 1..(Len(text) - 1) :
        /\ text[j] = "import" /\ text[j + 1] = " "
        /\ (j = 1 \/ text[j - 1] = "\n")} \ ScaffoldStarts(text)

\* the scaffolding line at offset i follows the last import line directly,
\* or opens the text when there is no import line
ScaffoldWellPlaced(text, i) ==
    IF OtherImportLines(text) = {} THEN i = 1
    ELSE \E j \in OtherImportLines(text) :
            /\ j < i
            /\ text[i - 1] = "\n"
            /\ \A k \in j..(i - 2) : text[k] # "\n"
            /\ \A m \in OtherImportLines(text) : m <= j

\* C24: the createRequire import line is in the returned text exactly when
\* the pass synthesized a createRequire(import.meta.url)(...) call and the
\* file has no createRequire import of its own; it is there once, right
\* after the last import line, or first when there is none
C24_InjectedExactlyWhenNeeded ==
    (TransformDone /\ last.kind = "code") =>
        /\ last.injected <=> (/\ SynthesizedCreateRequire # <<>>
                              /\ ~HasOwnCreateRequireImport(LastFile.ast))
        /\ ScaffoldCount(last.value) = (IF last.injected THEN 1 ELSE 0)
        /\ \A i \in ScaffoldStarts(last.value) : ScaffoldWellPlaced(last.value, i)

\* the binary the resolver of a loader call of the latest file yields, NoStr
\* for none: node-gyp-build aliases take a directory, bindings aliases a name
ResolvedAt(n) ==
    IF n.callee.name \in last.pass.nodeGypBuildVars
    THEN With(resolveDirArgument(last.pass, FirstArg(n), last.id), LAMBDA directory :
            IF directory = NoStr THEN NoStr ELSE resolveNodeGypBuild(fs, directory))
    ELSE With(BindingsModuleName(FirstArg(n)), LAMBDA moduleName :
            IF moduleName = NoStr THEN NoStr
            ELSE resolveBindings(fs, Dirname(last.id), moduleName))

ResolverHooks == {"resolveNodeGypBuild", "resolveBindings", "resolveNpmPackageNodeFile"}

C26_WrittenNamesEmitted ==
    last.hook = "generateBundle" =>
        \A w \in rewrites :
            /\ MapHas(nativeFiles, w.path)
            /\ MapGet(nativeFiles, w.path).hashedFilename = w.name
            /\ \E i \in 1..Len(emitted) :
                  /\ emitted[i].fileName = w.name
                  /\ emitted[i].source = ReadFileSync(fs, w.path).data

\* the edits of the latest pass that synthesize require("./name")
SynthesizedRequire ==
    SelectSeq(Edits, LAMBDA e :
        Len(e.value) > 2 /\ SubSeq(e.value, 1, 2) = <<"require", "(">>)

\* C27: the loader calls rewritten in one pass all use one loading style:
\* the pass never synthesizes both a require(...) replacement and a
\* createRequire(import.meta.url)(...) replacement
C27_OneLoadingStyle ==
    (TransformDone /\ last.kind = "code") =>
        SynthesizedRequire = <<>> \/ SynthesizedCreateRequire = <<>>

\* C28: a transform call that returns null (disabled, no trigger text, no
\* call site matched, or an exception caught) leaves both registries as
\* they were
C28_NullLeavesRegistries ==
    [][(last'.hook = "transform" /\ last'.kind = "null")
          => /\ nativeFiles' = nativeFiles
             /\ hashedFilenameToPath' = hashedFilenameToPath]_vars

\* C29: the forward and reverse maps of the registry agree: the output name
\* of every record reverse-maps to that record's path, and every reverse
\* entry names a path whose record carries that output name
C29_RegistryMapsAgree ==
    /\ \A i \in 1..Len(nativeFiles) :
          /\ MapHas(hashedFilenameToPath, nativeFiles[i].val.hashedFilename)
          /\ MapGet(hashedFilenameToPath, nativeFiles[i].val.hashedFilename)
                = nativeFiles[i].key
    /\ \A j \in 1..Len(hashedFilenameToPath) :
          /\ MapHas(nativeFiles, hashedFilenameToPath[j].val)
          /\ MapGet(nativeFiles, hashedFilenameToPath[j].val).hashedFilename
                = hashedFilenameToPath[j].key

\* load of the virtual key yields the proxy of a recorded binary
Loadable(key) ==
    /\ StartsWith(key, VirtualPrefix)
    /\ MapHas(nativeFiles, SliceFrom(key, Len(VirtualPrefix)))
    /\ LoadOutcome(nativeFiles, virtualModuleTypes, fs, key, "none").kind = "code"

\* C30: every virtual key resolveId returns, and every key tracked in
\* virtualModuleTypes, names a path with a record, so that load of the key
\* returns proxy text
C30_VirtualKeysLoadable ==
    /\ \A k \in MapKeys(virtualModuleTypes) : Loadable(k)
    /\ (last.hook = "resolveId" /\ last.kind = "id") =>
          /\ Loadable(last.value)
          /\ MapHas(virtualModuleTypes, last.value)
    /\ (last.hook = "load" /\ MapHas(virtualModuleTypes, last.id)) => last.kind = "code"

C30_Witness ==
    /\ last.hook = "load" /\ last.kind = "code"
    /\ MapHas(virtualModuleTypes, last.id)
    /\ MapHas(nativeFiles, SliceFrom(last.id, Len(VirtualPrefix)))

====
